---- MODULE Spec2Model ----
(***************************************************************************)
(* variant_ii::Variant<Types...> (src/variant_ii.hpp): a tagged union over *)
(* a fixed alternative list, with copy/move/assign/emplace/swap and the    *)
(* valueless-by-exception state.                                           *)
(*                                                                         *)
(* The model instantiates the template as                                  *)
(*     Variant<char, IntConvertible, CopyConstructThrows>                  *)
(* with two variables x and y of that type.  Every public operation is one *)
(* action.  A special member of an alternative that is not noexcept may    *)
(* throw or not: the action chooses which of the potentially-throwing      *)
(* calls of the operation (numbered in execution order) throws, if any.    *)
(* A throwing constructor leaves its source argument untouched, as the     *)
(* throwing fixtures of src/test/utility.hpp do.                           *)
(***************************************************************************)
EXTENDS Integers, Sequences, FiniteSets

VARIABLES
    v,      \* v[n]: the Variant object named n (type_idx_ and storage_)
    alive,  \* alive[n]: n's lifetime has begun and not ended
    pre,    \* v as it was before the last operation
    last,   \* the last operation: its name, operands, inputs and outcome
    log,    \* the special-member calls of alternatives made by the last operation
    steps   \* those calls and the writes of type_idx_ in between, in program order

vars == <<v, alive, pre, last, log, steps>>

(* ------------------------------ bounds -------------------------------- *)

\* Values of an alternative are 0..MaxVal.
MaxVal == 1

(* --------------------------- the type list ----------------------------- *)

\* inline constexpr size_t variant_npos = -1;
variant_npos == -1

\* The alternative list Types... of the instantiation.
Types == <<"char", "IntConvertible", "CopyConstructThrows">>

\* sizeof...(Types)
SizeofTypes == Len(Types)

Indices == 0 .. (SizeofTypes - 1)

Values == 0 .. MaxVal

\* The variables of type Variant<Types...> of the scenario.
Names == {"x", "y"}

\* IndexOfImpl<Search, Idx, T, Types...>: the position of the first
\* alternative that is Search, scanning from Idx.
RECURSIVE IndexOfImpl(_, _)
IndexOfImpl(Search, Idx) ==
    IF Types[Idx + 1] = Search THEN Idx ELSE IndexOfImpl(Search, Idx + 1)

IndexOf(T) == IndexOfImpl(T, 0)

\* TypeAtIdxImpl<Idx, CurIdx, T, Types...>
RECURSIVE TypeAtIdxImpl(_, _)
TypeAtIdxImpl(Idx, CurIdx) ==
    IF Idx = CurIdx THEN Types[CurIdx + 1] ELSE TypeAtIdxImpl(Idx, CurIdx + 1)

TypeAtIdx(Idx) == TypeAtIdxImpl(Idx, 0)

(* ------------------- traits of the alternatives ------------------------ *)

\* std::is_nothrow_copy_constructible_v<T>: char is trivially copyable; the
\* copy constructors of IntConvertible and CopyConstructThrows are not noexcept.
is_nothrow_copy_constructible(T) == T = "char"

\* std::is_nothrow_move_constructible_v<T>: IntConvertible(IntConvertible&&)
\* is noexcept, CopyConstructThrows(CopyConstructThrows&&) is not.
is_nothrow_move_constructible(T) == T \in {"char", "IntConvertible"}

\* std::is_nothrow_default_constructible_v<T>, for the first alternative.
is_nothrow_default_constructible(T) == T = "char"

\* The types of the values handed to converting construction and assignment:
\* nullptr_t converts to no alternative; ConvertibleToTwo is a class with
\* conversion functions to IntConvertible and to CopyConstructThrows.
FromTypes == {"char", "int", "CopyConstructThrows", "nullptr_t", "ConvertibleToTwo"}

\* NotNarrow as it would be if it only asked for an implicit conversion
\* From -> To, narrowing or not.
NotNarrow_AnyConversion(From, To) ==
    \/ From = To
    \/ From \in {"int", "char"} /\ To \in {"char", "IntConvertible"}
    \/ From = "ConvertibleToTwo" /\ To \in {"IntConvertible", "CopyConstructThrows"}

\* NotNarrow<From, To>: To[]{from} is well formed.  int -> char narrows;
\* IntConvertible has a converting constructor from int (char promotes to int).
NotNarrow(From, To) ==
    \/ From = To
    \/ From \in {"int", "char"} /\ To = "IntConvertible"
    \/ From = "ConvertibleToTwo" /\ To \in {"IntConvertible", "CopyConstructThrows"}

\* The rank of the implicit conversion From -> To in overload resolution of
\* ChooseConvertible<From, Types...>::F: an exact match beats a standard
\* conversion, which beats a user-defined conversion.
ConversionRank(From, To) ==
    IF From = To THEN 3
    ELSE IF From \in {"int", "char"} /\ To \in {"int", "char"} THEN 2
    ELSE 1

\* ChooseConvertible<From, Types...>: the overload set F(To), one overload per
\* alternative To with NotNarrow<From, To>.
ChooseConvertibleSet(From) ==
    {i \in Indices : NotNarrow(From, Types[i + 1])}

\* ChooseConvertibleT<From, Types...>: the return type of the overload that
\* F(declval<From>()) selects; "void" when only F(...) is viable.
ChooseConvertibleT(From) ==
    LET S    == ChooseConvertibleSet(From)
        best == {i \in S : \A j \in S \ {i} :
                    ConversionRank(From, Types[i + 1]) > ConversionRank(From, Types[j + 1])}
    IN  IF S = {} THEN "void"
        ELSE IF best = {} THEN "ambiguous"
        ELSE Types[(CHOOSE i \in best : TRUE) + 1]

\* IsConvertibleV<From, Types...>
IsConvertibleV(From) == ChooseConvertibleT(From) \notin {"void", "ambiguous"}

\* std::is_nothrow_constructible_v<To, From>
is_nothrow_constructible(To, From) ==
    IF From = To THEN is_nothrow_copy_constructible(To) ELSE FALSE

\* std::is_nothrow_assignable_v<To&, From>: only char's assignment is noexcept.
is_nothrow_assignable(To, From) == To = "char"

(* ------------------------ objects and storage -------------------------- *)

\* An object of alternative alt living in a buffer; moved: it has been the
\* source of a move construction or move assignment (MovedOut::moved_out).
Obj(alt, val) == [alt |-> alt, val |-> val, moved |-> FALSE]

\* storage_ holding no constructed object.
NoObj == [alt |-> variant_npos, val |-> 0, moved |-> FALSE]

\* size_t type_idx_; std::array<std::byte, ...> storage_;
Variant(idx, obj) == [type_idx_ |-> idx, storage_ |-> obj]

\* A variable before its constructor has run or after its destructor has.
NoVariant == Variant(variant_npos, NoObj)

\* One entry of the call log: e in {"construct", "destroy", "assign", "swap"},
\* or "index" for a write of type_idx_ (alt: the value written; destroy writes
\* variant_npos itself, right after the destructor call it records),
\* at: the buffer ("x", "y", or "tmp" for a temporary), how: which constructor
\* or assignment ("default", "convert", "copy", "move"), over: the buffer
\* still held an undestroyed object when the constructor ran.
Ev(e, at, alt, how, over) == [e |-> e, at |-> at, alt |-> alt, how |-> how, over |-> over]

\* type_idx_ = k, written by an operation on the existing variant in buffer
\* at, as an entry of the steps of the operation.
IndexWrite(at, k) == <<Ev("index", at, k, "-", FALSE)>>

\* The entries of a sequence of steps that are calls of special members of
\* alternatives.
Calls(seq) == SelectSeq(seq, LAMBDA ev : ev.e # "index")

\* new(storage_.data()) T(...): the object now occupying the buffer.
PlacementNew(self, at, alt, val, how) ==
    [v   |-> [self EXCEPT !.storage_ = Obj(alt, val)],
     log |-> <<Ev("construct", at, alt, how, self.storage_ # NoObj)>>]

\* size_t index() const noexcept
index(self) == self.type_idx_

\* bool valueless_by_exception() const noexcept
valueless_by_exception(self) == self.type_idx_ = variant_npos

\* destroy as it would be without the dispatch on the discriminant: the
\* buffer is always destroyed, as the first alternative when valueless.
destroy_Unchecked(Idx, self, at) ==
    [v   |-> Variant(variant_npos, NoObj),
     log |-> <<Ev("destroy", at, IF self.type_idx_ \in Indices THEN self.type_idx_ ELSE 0,
                  "-", FALSE)>>]

\* template<size_t Idx> void destroy()
RECURSIVE destroy(_, _, _)
destroy(Idx, self, at) ==
    IF Idx = SizeofTypes THEN [v |-> self, log |-> <<>>]
    ELSE IF Idx # self.type_idx_ THEN destroy(Idx + 1, self, at)
    ELSE [v   |-> Variant(variant_npos, NoObj),
          log |-> <<Ev("destroy", at, Idx, "-", FALSE)>>]

(* The result of an operation on *this (self) and, for binary operations,   *)
(* other: the two objects afterwards, whether an exception propagated, and  *)
(* the calls made.  raised counts the calls of an alternative's constructor *)
(* or assignment operator that threw: the code has no handler, so the first *)
(* such call ends the operation and its exception is the one propagated.    *)
Result(self, other, threw, lg) ==
    [self |-> self, other |-> other, threw |-> threw, log |-> lg,
     raised |-> IF threw THEN 1 ELSE 0]

\* The argument type of the emplace<Idx>(args...) calls of the scenario: a
\* char for char, an int for IntConvertible, an lvalue for CopyConstructThrows.
EmplaceArg(Idx) == <<"char", "int", "CopyConstructThrows">>[Idx + 1]

\* emplace as it would be with the discriminant write forgotten.
emplace_NoIndexWrite(Idx, self, at, val, throws) ==
    LET d == destroy(0, self, at)
    IN  IF throws /\ ~is_nothrow_constructible(TypeAtIdx(Idx), EmplaceArg(Idx))
        THEN Result(d.v, NoVariant, TRUE, d.log)
        ELSE LET n == PlacementNew(d.v, at, Idx, val, "convert")
             IN  Result(n.v, NoVariant, FALSE, d.log \o n.log)

\* emplace as it would be if it built the new object before destroying the
\* old one, keeping the old value when the constructor throws.
emplace_KeepOnThrow(Idx, self, at, val, throws) ==
    IF throws /\ ~is_nothrow_constructible(TypeAtIdx(Idx), EmplaceArg(Idx))
    THEN Result(self, NoVariant, TRUE, <<>>)
    ELSE LET d == destroy(0, self, at)
             n == PlacementNew(d.v, at, Idx, val, "convert")
         IN  Result([n.v EXCEPT !.type_idx_ = Idx], NoVariant, FALSE, d.log \o n.log)

\* emplace as it would be if it wrote the discriminant before constructing
\* the new object.
emplace_IndexFirst(Idx, self, at, val, throws) ==
    LET d == destroy(0, self, at)
        w == [d.v EXCEPT !.type_idx_ = Idx]
    IN  IF throws /\ ~is_nothrow_constructible(TypeAtIdx(Idx), EmplaceArg(Idx))
        THEN Result(w, NoVariant, TRUE, d.log \o IndexWrite(at, Idx))
        ELSE LET n == PlacementNew(w, at, Idx, val, "convert")
             IN  Result(n.v, NoVariant, FALSE, d.log \o IndexWrite(at, Idx) \o n.log)

\* emplace as it would be if it caught the constructor's exception and
\* constructed again.
emplace_RetryOnThrow(Idx, self, at, val, throws) ==
    LET d == destroy(0, self, at)
        n == PlacementNew(d.v, at, Idx, val, "convert")
        r == Result([n.v EXCEPT !.type_idx_ = Idx], NoVariant, FALSE, d.log \o n.log)
    IN  IF throws /\ ~is_nothrow_constructible(TypeAtIdx(Idx), EmplaceArg(Idx))
        THEN [r EXCEPT !.raised = 1]
        ELSE r

\* emplace as it would be if it built a temporary T from the arguments and
\* move-constructed the target's object from it.
emplace_ViaTemporary(Idx, self, at, val, throws) ==
    LET d == destroy(0, self, at)
    IN  IF throws /\ ~is_nothrow_constructible(TypeAtIdx(Idx), EmplaceArg(Idx))
        THEN Result(d.v, NoVariant, TRUE, d.log)
        ELSE LET t == PlacementNew(NoVariant, "tmp", Idx, val, "convert")
                 n == PlacementNew(d.v, at, Idx, val, "move")
             IN  Result([n.v EXCEPT !.type_idx_ = Idx], NoVariant, FALSE,
                        d.log \o t.log \o n.log \o <<Ev("destroy", "tmp", Idx, "-", FALSE)>>)

\* template<size_t Idx, typename... Args> void emplace(Args&&... args)
\* throws: T's constructor throws.
emplace(Idx, self, at, val, throws) ==
    LET d == destroy(0, self, at)
    IN  IF throws /\ ~is_nothrow_constructible(TypeAtIdx(Idx), EmplaceArg(Idx))
        THEN Result(d.v, NoVariant, TRUE, d.log)
        ELSE LET n == PlacementNew(d.v, at, Idx, val, "convert")
             IN  Result([n.v EXCEPT !.type_idx_ = Idx], NoVariant, FALSE,
                        d.log \o n.log \o IndexWrite(at, Idx))

\* template<typename T, typename... Args> void emplace(Args&&... args)
emplaceT(T, self, at, val, throws) == emplace(IndexOf(T), self, at, val, throws)

\* template<size_t Idx> void copy_construct(const Variant& other)
RECURSIVE copy_construct(_, _, _, _, _)
copy_construct(Idx, self, at, other, throws) ==
    IF Idx = SizeofTypes THEN Result(self, other, FALSE, <<>>)
    ELSE IF Idx # other.type_idx_ THEN copy_construct(Idx + 1, self, at, other, throws)
    ELSE IF throws /\ ~is_nothrow_copy_constructible(TypeAtIdx(Idx))
         THEN Result(self, other, TRUE, <<>>)
         ELSE LET n == PlacementNew(self, at, Idx, other.storage_.val, "copy")
              IN  Result(n.v, other, FALSE, n.log)

\* move_construct as it would be if a successful move left the source
\* marked valueless.
RECURSIVE move_construct_InvalidateSource(_, _, _, _, _)
move_construct_InvalidateSource(Idx, self, at, other, throws) ==
    IF Idx = SizeofTypes THEN Result(self, other, FALSE, <<>>)
    ELSE IF Idx # other.type_idx_
    THEN move_construct_InvalidateSource(Idx + 1, self, at, other, throws)
    ELSE IF throws /\ ~is_nothrow_move_constructible(TypeAtIdx(Idx))
         THEN Result(self, other, TRUE, <<>>)
         ELSE LET n == PlacementNew(self, at, Idx, other.storage_.val, "move")
              IN  Result(n.v, [other EXCEPT !.storage_.moved = TRUE,
                                            !.type_idx_ = variant_npos], FALSE, n.log)

\* template<size_t Idx> void move_construct(Variant&& other)
RECURSIVE move_construct(_, _, _, _, _)
move_construct(Idx, self, at, other, throws) ==
    IF Idx = SizeofTypes THEN Result(self, other, FALSE, <<>>)
    ELSE IF Idx # other.type_idx_ THEN move_construct(Idx + 1, self, at, other, throws)
    ELSE IF throws /\ ~is_nothrow_move_constructible(TypeAtIdx(Idx))
         THEN Result(self, other, TRUE, <<>>)
         ELSE LET n == PlacementNew(self, at, Idx, other.storage_.val, "move")
              IN  Result(n.v, [other EXCEPT !.storage_.moved = TRUE], FALSE, n.log)

\* The copy constructor as it would be if it moved from its argument.
CopyCtor_ViaMove(other, at, throws) ==
    move_construct(0, Variant(other.type_idx_, NoObj), at, other, throws)

\* The copy constructor as it would be if a valueless source produced a
\* default-constructed first alternative.
CopyCtor_DefaultOnValueless(other, at, throws) ==
    IF other.type_idx_ = variant_npos
    THEN LET n == PlacementNew(Variant(0, NoObj), at, 0, 0, "default")
         IN  Result(n.v, other, FALSE, n.log)
    ELSE copy_construct(0, Variant(other.type_idx_, NoObj), at, other, throws)

\* Variant(const Variant& other) : type_idx_{other.type_idx_} { copy_construct<0>(other); }
CopyCtor(other, at, throws) ==
    copy_construct(0, Variant(other.type_idx_, NoObj), at, other, throws)

\* Variant(Variant&& other) : type_idx_{other.type_idx_} { move_construct<0>(std::move(other)); }
MoveCtor(other, at, throws) ==
    move_construct(0, Variant(other.type_idx_, NoObj), at, other, throws)

\* The converting constructor as it would be with the discriminant
\* initialised as in the default constructor.
ConvertCtor_IndexZero(From, at, val, throws) ==
    LET To == ChooseConvertibleT(From)
    IN  IF throws /\ ~is_nothrow_constructible(To, From)
        THEN Result(NoVariant, NoVariant, TRUE, <<>>)
        ELSE LET n == PlacementNew(Variant(0, NoObj), at, IndexOf(To), val, "convert")
             IN  Result(n.v, NoVariant, FALSE, n.log)

\* Variant() : type_idx_{0} { new(storage_.data()) T(); }
\* A value-initialised alternative has value 0.
DefaultCtor(at, throws) ==
    IF throws /\ ~is_nothrow_default_constructible(TypeAtIdx(0))
    THEN Result(NoVariant, NoVariant, TRUE, <<>>)
    ELSE LET n == PlacementNew(Variant(0, NoObj), at, 0, 0, "default")
         IN  Result(n.v, NoVariant, FALSE, n.log)

\* template<size_t Idx, typename... Args> Variant(std::in_place_index_t<Idx>, Args&&... args)
InPlaceIndexCtor(Idx, at, val, throws) ==
    IF throws /\ ~is_nothrow_constructible(TypeAtIdx(Idx), EmplaceArg(Idx))
    THEN Result(NoVariant, NoVariant, TRUE, <<>>)
    ELSE LET n == PlacementNew(Variant(Idx, NoObj), at, Idx, val, "convert")
         IN  Result(n.v, NoVariant, FALSE, n.log)

\* template<typename T, typename... Args> Variant(std::in_place_type_t<T>, Args&&... args)
InPlaceTypeCtor(T, at, val, throws) ==
    IF throws /\ ~is_nothrow_constructible(T, EmplaceArg(IndexOf(T)))
    THEN Result(NoVariant, NoVariant, TRUE, <<>>)
    ELSE LET n == PlacementNew(Variant(IndexOf(T), NoObj), at, IndexOf(T), val, "convert")
         IN  Result(n.v, NoVariant, FALSE, n.log)

\* template<typename T> Variant(T&& var)
ConvertCtor(From, at, val, throws) ==
    LET To == ChooseConvertibleT(From)
    IN  IF throws /\ ~is_nothrow_constructible(To, From)
        THEN Result(NoVariant, NoVariant, TRUE, <<>>)
        ELSE LET n == PlacementNew(Variant(IndexOf(To), NoObj), at, IndexOf(To), val, "convert")
             IN  Result(n.v, NoVariant, FALSE, n.log)

\* move_assign_same_types as it would be if it assigned from an lvalue:
\* the alternative's copy-assignment operator runs and other is not moved from.
RECURSIVE move_assign_same_types_ViaCopy(_, _, _, _, _)
move_assign_same_types_ViaCopy(Idx, self, at, other, throws) ==
    IF Idx = SizeofTypes THEN Result(self, other, FALSE, <<>>)
    ELSE IF Idx # other.type_idx_
    THEN move_assign_same_types_ViaCopy(Idx + 1, self, at, other, throws)
    ELSE IF throws /\ ~is_nothrow_assignable(TypeAtIdx(Idx), TypeAtIdx(Idx))
         THEN Result(self, other, TRUE, <<>>)
         ELSE Result([self EXCEPT !.storage_ = Obj(Idx, other.storage_.val)], other, FALSE,
                     <<Ev("assign", at, Idx, "copy", FALSE)>>)

\* template<size_t Idx> void move_assign_same_types(Variant&& other)
RECURSIVE move_assign_same_types(_, _, _, _, _)
move_assign_same_types(Idx, self, at, other, throws) ==
    IF Idx = SizeofTypes THEN Result(self, other, FALSE, <<>>)
    ELSE IF Idx # other.type_idx_ THEN move_assign_same_types(Idx + 1, self, at, other, throws)
    ELSE IF throws /\ ~is_nothrow_assignable(TypeAtIdx(Idx), TypeAtIdx(Idx))
         THEN Result(self, other, TRUE, <<>>)
         ELSE Result([self EXCEPT !.storage_ = Obj(Idx, other.storage_.val)],
                     [other EXCEPT !.storage_.moved = TRUE], FALSE,
                     <<Ev("assign", at, Idx, "move", FALSE)>>)

\* Move assignment as it would be if the new object were move-constructed
\* into the target before the target's old object is destroyed.
MoveAssign_ConstructThenDestroy(self, at, other, throws) ==
    IF other.type_idx_ = variant_npos
    THEN IF self.type_idx_ = variant_npos
         THEN Result(self, other, FALSE, <<>>)
         ELSE LET d == destroy(0, self, at) IN Result(d.v, other, FALSE, d.log)
    ELSE IF self.type_idx_ = other.type_idx_
    THEN move_assign_same_types(0, self, at, other, throws)
    ELSE LET m == move_construct(0, self, at, other, throws)
             d == destroy(0, self, at)
         IN  IF m.threw
             THEN Result(d.v, m.other, TRUE, m.log \o d.log)
             ELSE Result([m.self EXCEPT !.type_idx_ = m.other.type_idx_], m.other, FALSE,
                         m.log \o d.log)

\* Move assignment as it would be if a throwing move constructor left the
\* target with its previous value.
MoveAssign_KeepOnThrow(self, at, other, throws) ==
    IF other.type_idx_ = variant_npos
    THEN IF self.type_idx_ = variant_npos
         THEN Result(self, other, FALSE, <<>>)
         ELSE LET d == destroy(0, self, at) IN Result(d.v, other, FALSE, d.log)
    ELSE IF self.type_idx_ = other.type_idx_
    THEN move_assign_same_types(0, self, at, other, throws)
    ELSE LET d == destroy(0, self, at)
             m == move_construct(0, d.v, at, other, throws)
         IN  IF m.threw
             THEN Result(self, m.other, TRUE, <<>>)
             ELSE Result([m.self EXCEPT !.type_idx_ = m.other.type_idx_], m.other, FALSE,
                         d.log \o m.log \o IndexWrite(at, m.other.type_idx_))

\* Variant& operator=(Variant&& other)
MoveAssign(self, at, other, throws) ==
    IF other.type_idx_ = variant_npos
    THEN IF self.type_idx_ = variant_npos
         THEN Result(self, other, FALSE, <<>>)
         ELSE LET d == destroy(0, self, at) IN Result(d.v, other, FALSE, d.log)
    ELSE IF self.type_idx_ = other.type_idx_
    THEN move_assign_same_types(0, self, at, other, throws)
    ELSE LET d == destroy(0, self, at)
             m == move_construct(0, d.v, at, other, throws)
         IN  IF m.threw
             THEN Result(m.self, m.other, TRUE, d.log \o m.log)
             ELSE Result([m.self EXCEPT !.type_idx_ = m.other.type_idx_], m.other, FALSE,
                         d.log \o m.log \o IndexWrite(at, m.other.type_idx_))

\* copy_assign_same_types as it would be if it destroyed the target's object
\* and copy-constructed a new one in its place.
RECURSIVE copy_assign_same_types_Rebuild(_, _, _, _, _)
copy_assign_same_types_Rebuild(Idx, self, at, other, throws) ==
    IF Idx = SizeofTypes THEN Result(self, other, FALSE, <<>>)
    ELSE IF Idx # other.type_idx_
    THEN copy_assign_same_types_Rebuild(Idx + 1, self, at, other, throws)
    ELSE LET d == destroy(0, self, at)
             c == copy_construct(Idx, d.v, at, other, throws)
         IN  Result(c.self, c.other, c.threw, d.log \o c.log)

\* copy_assign_same_types as it would be if a throwing assignment operator
\* were answered by destroying the target's object.
RECURSIVE copy_assign_same_types_DestroyOnThrow(_, _, _, _, _)
copy_assign_same_types_DestroyOnThrow(Idx, self, at, other, throws) ==
    IF Idx = SizeofTypes THEN Result(self, other, FALSE, <<>>)
    ELSE IF Idx # other.type_idx_
    THEN copy_assign_same_types_DestroyOnThrow(Idx + 1, self, at, other, throws)
    ELSE IF throws /\ ~is_nothrow_assignable(TypeAtIdx(Idx), TypeAtIdx(Idx))
         THEN LET d == destroy(0, self, at) IN Result(d.v, other, TRUE, d.log)
         ELSE Result([self EXCEPT !.storage_ = Obj(Idx, other.storage_.val)], other, FALSE,
                     <<Ev("assign", at, Idx, "copy", FALSE)>>)

\* template<size_t Idx> void copy_assign_same_types(const Variant& other)
RECURSIVE copy_assign_same_types(_, _, _, _, _)
copy_assign_same_types(Idx, self, at, other, throws) ==
    IF Idx = SizeofTypes THEN Result(self, other, FALSE, <<>>)
    ELSE IF Idx # other.type_idx_ THEN copy_assign_same_types(Idx + 1, self, at, other, throws)
    ELSE IF throws /\ ~is_nothrow_assignable(TypeAtIdx(Idx), TypeAtIdx(Idx))
         THEN Result(self, other, TRUE, <<>>)
         ELSE Result([self EXCEPT !.storage_ = Obj(Idx, other.storage_.val)], other, FALSE,
                     <<Ev("assign", at, Idx, "copy", FALSE)>>)

\* copy_assign as it would be without the if constexpr: the alternative is
\* always copy-constructed directly into the target.
RECURSIVE copy_assign_AlwaysDirect(_, _, _, _, _)
copy_assign_AlwaysDirect(Idx, self, at, other, fail) ==
    IF Idx = SizeofTypes THEN Result(self, other, FALSE, <<>>)
    ELSE IF Idx # other.type_idx_ THEN copy_assign_AlwaysDirect(Idx + 1, self, at, other, fail)
    ELSE copy_construct(Idx, self, at, other, fail = 1)

\* template<size_t Idx> void copy_assign(const Variant& other)
\* fail = 1: the copy constructor throws.
RECURSIVE copy_assign(_, _, _, _, _)
copy_assign(Idx, self, at, other, fail) ==
    IF Idx = SizeofTypes THEN Result(self, other, FALSE, <<>>)
    ELSE IF Idx # other.type_idx_ THEN copy_assign(Idx + 1, self, at, other, fail)
    ELSE IF is_nothrow_copy_constructible(TypeAtIdx(Idx))
            \/ ~is_nothrow_move_constructible(TypeAtIdx(Idx))
    THEN copy_construct(Idx, self, at, other, fail = 1)
    ELSE \* new(storage_.data()) T(get<Idx>(Variant(other)));
         LET c == CopyCtor(other, "tmp", fail = 1)
         IN  IF c.threw
             THEN Result(self, other, TRUE, c.log)
             ELSE LET m == move_construct(Idx, self, at, c.self, FALSE)
                      d == destroy(0, m.other, "tmp")
                  IN  Result(m.self, other, FALSE, c.log \o m.log \o d.log)

\* Copy assignment as it would be if the target's old object were not
\* destroyed before the new one is built over it.
CopyAssign_NoDestroy(self, at, other, fail) ==
    IF other.type_idx_ = variant_npos
    THEN IF self.type_idx_ = variant_npos
         THEN Result(self, other, FALSE, <<>>)
         ELSE LET d == destroy(0, self, at) IN Result(d.v, other, FALSE, d.log)
    ELSE IF self.type_idx_ = other.type_idx_
    THEN LET c == copy_assign_same_types(0, self, at, other, fail = 1)
         IN  IF c.threw THEN c
             ELSE Result([c.self EXCEPT !.type_idx_ = other.type_idx_], c.other, FALSE, c.log)
    ELSE LET d == [v |-> self, log |-> <<>>]
             c == copy_assign(0, d.v, at, other, fail)
         IN  IF c.threw
             THEN Result(c.self, c.other, TRUE, d.log \o c.log)
             ELSE Result([c.self EXCEPT !.type_idx_ = other.type_idx_], c.other, FALSE,
                         d.log \o c.log)

\* Copy assignment as it would be if a throwing copy left the target with
\* its previous value.
CopyAssign_KeepOnThrow(self, at, other, fail) ==
    IF other.type_idx_ = variant_npos
    THEN IF self.type_idx_ = variant_npos
         THEN Result(self, other, FALSE, <<>>)
         ELSE LET d == destroy(0, self, at) IN Result(d.v, other, FALSE, d.log)
    ELSE IF self.type_idx_ = other.type_idx_
    THEN LET c == copy_assign_same_types(0, self, at, other, fail = 1)
         IN  IF c.threw THEN c
             ELSE Result([c.self EXCEPT !.type_idx_ = other.type_idx_], c.other, FALSE, c.log)
    ELSE LET d == destroy(0, self, at)
             c == copy_assign(0, d.v, at, other, fail)
         IN  IF c.threw
             THEN Result(self, c.other, TRUE, c.log)
             ELSE Result([c.self EXCEPT !.type_idx_ = other.type_idx_], c.other, FALSE,
                         d.log \o c.log)

\* Copy assignment as it would be if a valueless source were ignored.
CopyAssign_IgnoreValueless(self, at, other, fail) ==
    IF other.type_idx_ = variant_npos
    THEN IF self.type_idx_ = variant_npos
         THEN Result(self, other, FALSE, <<>>)
         ELSE Result(self, other, FALSE, <<>>)
    ELSE IF self.type_idx_ = other.type_idx_
    THEN LET c == copy_assign_same_types(0, self, at, other, fail = 1)
         IN  IF c.threw THEN c
             ELSE Result([c.self EXCEPT !.type_idx_ = other.type_idx_], c.other, FALSE, c.log)
    ELSE LET d == destroy(0, self, at)
             c == copy_assign(0, d.v, at, other, fail)
         IN  IF c.threw
             THEN Result(c.self, c.other, TRUE, d.log \o c.log)
             ELSE Result([c.self EXCEPT !.type_idx_ = other.type_idx_], c.other, FALSE,
                         d.log \o c.log)

\* Copy assignment as it would be if it took its argument's value by moving
\* from it.
CopyAssign_ViaMove(self, at, other, fail) == MoveAssign(self, at, other, fail = 1)

\* Variant& operator=(const Variant& other)
CopyAssign(self, at, other, fail) ==
    IF other.type_idx_ = variant_npos
    THEN IF self.type_idx_ = variant_npos
         THEN Result(self, other, FALSE, <<>>)
         ELSE LET d == destroy(0, self, at) IN Result(d.v, other, FALSE, d.log)
    ELSE IF self.type_idx_ = other.type_idx_
    THEN LET c == copy_assign_same_types(0, self, at, other, fail = 1)
         IN  IF c.threw THEN c
             ELSE Result([c.self EXCEPT !.type_idx_ = other.type_idx_], c.other, FALSE,
                         c.log \o IndexWrite(at, other.type_idx_))
    ELSE LET d == destroy(0, self, at)
             c == copy_assign(0, d.v, at, other, fail)
         IN  IF c.threw
             THEN Result(c.self, c.other, TRUE, d.log \o c.log)
             ELSE Result([c.self EXCEPT !.type_idx_ = other.type_idx_], c.other, FALSE,
                         d.log \o c.log \o IndexWrite(at, other.type_idx_))

\* template<size_t Idx, typename T> void convert_assign(T&& t)
\* fail = 1: To's assignment from t, or To's constructor from t, throws.
RECURSIVE convert_assign(_, _, _, _, _, _)
convert_assign(Idx, self, at, From, val, fail) ==
    IF Idx = SizeofTypes THEN Result(self, NoVariant, FALSE, <<>>)
    ELSE IF Idx # self.type_idx_ THEN convert_assign(Idx + 1, self, at, From, val, fail)
    ELSE LET To == ChooseConvertibleT(From)
         IN  IF Idx = IndexOf(To)
             THEN IF fail = 1 /\ ~is_nothrow_assignable(To, From)
                  THEN Result(self, NoVariant, TRUE, <<>>)
                  ELSE Result([self EXCEPT !.storage_ = Obj(Idx, val)], NoVariant, FALSE,
                              <<Ev("assign", at, Idx, "convert", FALSE)>>)
             ELSE IF is_nothrow_constructible(To, From) \/ ~is_nothrow_move_constructible(To)
             THEN LET d == destroy(0, self, at)
                  IN  IF fail = 1 /\ ~is_nothrow_constructible(To, From)
                      THEN Result(d.v, NoVariant, TRUE, d.log)
                      ELSE LET n == PlacementNew(d.v, at, IndexOf(To), val, "convert")
                           IN  Result([n.v EXCEPT !.type_idx_ = IndexOf(To)], NoVariant, FALSE,
                                      d.log \o n.log \o IndexWrite(at, IndexOf(To)))
             ELSE LET d == destroy(0, self, at)
                  IN  IF fail = 1 /\ ~is_nothrow_constructible(To, From)
                      THEN Result(d.v, NoVariant, TRUE, d.log)
                      ELSE \* auto to = To(std::forward<T>(t)); new(...) To(std::move(to));
                           LET t == PlacementNew(NoVariant, "tmp", IndexOf(To), val, "convert")
                               n == PlacementNew(d.v, at, IndexOf(To), val, "move")
                           IN  Result([n.v EXCEPT !.type_idx_ = IndexOf(To)], NoVariant, FALSE,
                                      d.log \o t.log \o n.log
                                        \o IndexWrite(at, IndexOf(To))
                                        \o <<Ev("destroy", "tmp", IndexOf(To), "-", FALSE)>>)

\* Converting assignment as it would be if a live To were destroyed and
\* constructed anew from the value instead of being assigned to.
ConvertAssign_Rebuild(self, at, From, val, fail) ==
    LET To == ChooseConvertibleT(From)
    IN  IF self.type_idx_ = IndexOf(To)
        THEN LET d == destroy(0, self, at)
             IN  IF fail = 1 /\ ~is_nothrow_assignable(To, From)
                 THEN Result(d.v, NoVariant, TRUE, d.log)
                 ELSE LET n == PlacementNew(d.v, at, IndexOf(To), val, "convert")
                      IN  Result([n.v EXCEPT !.type_idx_ = IndexOf(To)], NoVariant, FALSE,
                                 d.log \o n.log)
        ELSE convert_assign(0, self, at, From, val, fail)

\* Converting assignment as it would be if To were always constructed
\* directly in the target, whatever To's constructors may throw.
ConvertAssign_AlwaysDirect(self, at, From, val, fail) ==
    LET To == ChooseConvertibleT(From)
    IN  IF self.type_idx_ \in Indices /\ self.type_idx_ # IndexOf(To)
        THEN LET d == destroy(0, self, at)
             IN  IF fail = 1 /\ ~is_nothrow_constructible(To, From)
                 THEN Result(d.v, NoVariant, TRUE, d.log)
                 ELSE LET n == PlacementNew(d.v, at, IndexOf(To), val, "convert")
                      IN  Result([n.v EXCEPT !.type_idx_ = IndexOf(To)], NoVariant, FALSE,
                                 d.log \o n.log)
        ELSE convert_assign(0, self, at, From, val, fail)

\* Converting assignment as it would be if a throwing construction of To
\* left the variant with its previous value.
ConvertAssign_KeepOnThrow(self, at, From, val, fail) ==
    LET r == convert_assign(0, self, at, From, val, fail)
    IN  IF r.threw THEN Result(self, NoVariant, TRUE, <<>>) ELSE r

\* template<class T> Variant& operator=(T&& t)
ConvertAssign(self, at, From, val, fail) == convert_assign(0, self, at, From, val, fail)

\* swap_same_types as it would be if the two values were exchanged by the
\* variant itself through a temporary instead of by the alternative's swap.
RECURSIVE swap_same_types_ViaMoves(_, _, _, _, _)
swap_same_types_ViaMoves(Idx, self, other, a, b) ==
    IF Idx = SizeofTypes THEN Result(self, other, FALSE, <<>>)
    ELSE IF Idx # self.type_idx_ THEN swap_same_types_ViaMoves(Idx + 1, self, other, a, b)
    ELSE Result(Variant(other.type_idx_, other.storage_),
                Variant(self.type_idx_, self.storage_), FALSE,
                <<Ev("construct", "tmp", Idx, "move", FALSE),
                  Ev("assign", a, Idx, "move", FALSE),
                  Ev("assign", b, Idx, "move", FALSE),
                  Ev("destroy", "tmp", Idx, "-", FALSE)>>)

\* template<size_t Idx> void swap_same_types(Variant& other)
RECURSIVE swap_same_types(_, _, _, _, _)
swap_same_types(Idx, self, other, a, b) ==
    IF Idx = SizeofTypes THEN Result(self, other, FALSE, <<>>)
    ELSE IF Idx # self.type_idx_ THEN swap_same_types(Idx + 1, self, other, a, b)
    ELSE Result(Variant(other.type_idx_, other.storage_),
                Variant(self.type_idx_, self.storage_), FALSE,
                <<Ev("swap", a, Idx, "-", FALSE)>>
                  \o IndexWrite(a, other.type_idx_) \o IndexWrite(b, self.type_idx_))

\* swap as it would be with both discriminants invalidated before the first
\* move of the rotation.
swap_EarlyInvalidate(self, other, a, b, fail) ==
    IF valueless_by_exception(self) /\ valueless_by_exception(other)
    THEN Result(self, other, FALSE, <<>>)
    ELSE IF self.type_idx_ = other.type_idx_
    THEN swap_same_types(0, self, other, a, b)
    ELSE LET m1 == MoveCtor(other, "tmp", fail = 1)
         IN  IF m1.threw
             THEN Result([self EXCEPT !.type_idx_ = variant_npos],
                         [other EXCEPT !.type_idx_ = variant_npos], TRUE, m1.log)
             ELSE
             LET o1 == [m1.other EXCEPT !.type_idx_ = variant_npos]
                 m2 == move_construct(0, o1, b, self, fail = 2)
             IN  IF m2.threw
                 THEN Result([m2.other EXCEPT !.type_idx_ = variant_npos], m2.self, TRUE,
                             m1.log \o m2.log \o destroy(0, m1.self, "tmp").log)
                 ELSE
                 LET o3 == [m2.self EXCEPT !.type_idx_ = m2.other.type_idx_]
                     s3 == [m2.other EXCEPT !.type_idx_ = variant_npos]
                     m3 == move_construct(0, s3, a, m1.self, fail = 3)
                     lg == m1.log \o m2.log \o m3.log \o destroy(0, m3.other, "tmp").log
                 IN  IF m3.threw
                     THEN Result(m3.self, o3, TRUE, lg)
                     ELSE Result([m3.self EXCEPT !.type_idx_ = m3.other.type_idx_], o3,
                                 FALSE, lg)

\* swap as it would be if the last move of the rotation took its value from
\* other instead of from the temporary.
swap_MoveBack(self, other, a, b, fail) ==
    IF valueless_by_exception(self) /\ valueless_by_exception(other)
    THEN Result(self, other, FALSE, <<>>)
    ELSE IF self.type_idx_ = other.type_idx_
    THEN swap_same_types(0, self, other, a, b)
    ELSE LET m1 == MoveCtor(other, "tmp", fail = 1)
         IN  IF m1.threw THEN Result(self, other, TRUE, m1.log)
             ELSE
             LET o1 == [m1.other EXCEPT !.type_idx_ = variant_npos]
                 m2 == move_construct(0, o1, b, self, fail = 2)
             IN  IF m2.threw
                 THEN Result(m2.other, m2.self, TRUE,
                             m1.log \o m2.log \o destroy(0, m1.self, "tmp").log)
                 ELSE
                 LET o3 == [m2.self EXCEPT !.type_idx_ = m2.other.type_idx_]
                     s3 == [m2.other EXCEPT !.type_idx_ = variant_npos]
                     m3 == move_construct(0, s3, a, o3, fail = 3)
                     lg == m1.log \o m2.log \o m3.log \o destroy(0, m1.self, "tmp").log
                 IN  IF m3.threw
                     THEN Result(m3.self, o3, TRUE, lg)
                     ELSE Result([m3.self EXCEPT !.type_idx_ = m3.other.type_idx_],
                                 m3.other, FALSE, lg)

\* swap as it would be if two valueless operands were answered with an
\* exception instead of a return.
swap_ThrowOnValueless(self, other, a, b, fail) ==
    IF valueless_by_exception(self) /\ valueless_by_exception(other)
    THEN Result(self, other, TRUE, <<>>)
    ELSE IF self.type_idx_ = other.type_idx_
    THEN swap_same_types(0, self, other, a, b)
    ELSE \* Variant tmp(std::move(other));
         LET m1 == MoveCtor(other, "tmp", fail = 1)
         IN  IF m1.threw THEN Result(self, other, TRUE, m1.log)
             ELSE
             LET o1 == [m1.other EXCEPT !.type_idx_ = variant_npos]
                 m2 == move_construct(0, o1, b, self, fail = 2)
             IN  IF m2.threw
                 THEN Result(m2.other, m2.self, TRUE,
                             m1.log \o m2.log \o destroy(0, m1.self, "tmp").log)
                 ELSE
                 LET o3 == [m2.self EXCEPT !.type_idx_ = m2.other.type_idx_]
                     s3 == [m2.other EXCEPT !.type_idx_ = variant_npos]
                     m3 == move_construct(0, s3, a, m1.self, fail = 3)
                     lg == m1.log \o m2.log \o m3.log \o destroy(0, m3.other, "tmp").log
                 IN  IF m3.threw
                     THEN Result(m3.self, o3, TRUE, lg)
                     ELSE Result([m3.self EXCEPT !.type_idx_ = m3.other.type_idx_], o3,
                                 FALSE, lg)

\* swap as it would be if this's discriminant were not invalidated before
\* the last move of the rotation.
swap_LateInvalidate(self, other, a, b, fail) ==
    IF valueless_by_exception(self) /\ valueless_by_exception(other)
    THEN Result(self, other, FALSE, <<>>)
    ELSE IF self.type_idx_ = other.type_idx_
    THEN swap_same_types(0, self, other, a, b)
    ELSE
         LET m1 == MoveCtor(other, "tmp", fail = 1)
         IN  IF m1.threw THEN Result(self, other, TRUE, m1.log)
             ELSE
             LET o1 == [m1.other EXCEPT !.type_idx_ = variant_npos]
                 m2 == move_construct(0, o1, b, self, fail = 2)
             IN  IF m2.threw
                 THEN Result(m2.other, m2.self, TRUE,
                             m1.log \o IndexWrite(b, variant_npos) \o m2.log
                                 \o destroy(0, m1.self, "tmp").log)
                 ELSE
                 LET o3 == [m2.self EXCEPT !.type_idx_ = m2.other.type_idx_]
                     s3 == m2.other
                     m3 == move_construct(0, s3, a, m1.self, fail = 3)
                     lg == m1.log \o IndexWrite(b, variant_npos) \o m2.log
                              \o IndexWrite(b, m2.other.type_idx_) \o m3.log
                     dt == destroy(0, m3.other, "tmp").log
                 IN  IF m3.threw
                     THEN Result(m3.self, o3, TRUE, lg \o dt)
                     ELSE Result([m3.self EXCEPT !.type_idx_ = m3.other.type_idx_], o3,
                                 FALSE,
                                 lg \o IndexWrite(a, m3.other.type_idx_) \o dt)

\* swap as it would be if it returned when either operand is valueless.
swap_ReturnIfEitherValueless(self, other, a, b, fail) ==
    IF valueless_by_exception(self) \/ valueless_by_exception(other)
    THEN Result(self, other, FALSE, <<>>)
    ELSE IF self.type_idx_ = other.type_idx_
    THEN swap_same_types(0, self, other, a, b)
    ELSE
         LET m1 == MoveCtor(other, "tmp", fail = 1)
         IN  IF m1.threw THEN Result(self, other, TRUE, m1.log)
             ELSE
             LET o1 == [m1.other EXCEPT !.type_idx_ = variant_npos]
                 m2 == move_construct(0, o1, b, self, fail = 2)
             IN  IF m2.threw
                 THEN Result(m2.other, m2.self, TRUE,
                             m1.log \o IndexWrite(b, variant_npos) \o m2.log
                                 \o destroy(0, m1.self, "tmp").log)
                 ELSE
                 LET o3 == [m2.self EXCEPT !.type_idx_ = m2.other.type_idx_]
                     s3 == [m2.other EXCEPT !.type_idx_ = variant_npos]
                     m3 == move_construct(0, s3, a, m1.self, fail = 3)
                     lg == m1.log \o IndexWrite(b, variant_npos) \o m2.log
                              \o IndexWrite(b, m2.other.type_idx_)
                              \o IndexWrite(a, variant_npos) \o m3.log
                     dt == destroy(0, m3.other, "tmp").log
                 IN  IF m3.threw
                     THEN Result(m3.self, o3, TRUE, lg \o dt)
                     ELSE Result([m3.self EXCEPT !.type_idx_ = m3.other.type_idx_], o3,
                                 FALSE,
                                 lg \o IndexWrite(a, m3.other.type_idx_) \o dt)

\* void swap(Variant& other)
\* fail = 1, 2, 3: the first, second, third move of the rotation throws.
swap(self, other, a, b, fail) ==
    IF valueless_by_exception(self) /\ valueless_by_exception(other)
    THEN Result(self, other, FALSE, <<>>)
    ELSE IF self.type_idx_ = other.type_idx_
    THEN swap_same_types(0, self, other, a, b)
    ELSE \* Variant tmp(std::move(other));
         LET m1 == MoveCtor(other, "tmp", fail = 1)
         IN  IF m1.threw THEN Result(self, other, TRUE, m1.log)
             ELSE
             \* other.type_idx_ = variant_npos; other.move_construct<0>(std::move(*this));
             LET o1 == [m1.other EXCEPT !.type_idx_ = variant_npos]
                 m2 == move_construct(0, o1, b, self, fail = 2)
             IN  IF m2.threw
                 THEN Result(m2.other, m2.self, TRUE,
                             m1.log \o IndexWrite(b, variant_npos) \o m2.log
                                 \o destroy(0, m1.self, "tmp").log)
                 ELSE
                 \* other.type_idx_ = type_idx_; type_idx_ = variant_npos;
                 \* move_construct<0>(std::move(tmp));
                 LET o3 == [m2.self EXCEPT !.type_idx_ = m2.other.type_idx_]
                     s3 == [m2.other EXCEPT !.type_idx_ = variant_npos]
                     m3 == move_construct(0, s3, a, m1.self, fail = 3)
                     lg == m1.log \o IndexWrite(b, variant_npos) \o m2.log
                              \o IndexWrite(b, m2.other.type_idx_)
                              \o IndexWrite(a, variant_npos) \o m3.log
                     dt == destroy(0, m3.other, "tmp").log
                 IN  IF m3.threw
                     THEN Result(m3.self, o3, TRUE, lg \o dt)
                     \* type_idx_ = tmp.type_idx_;
                     ELSE Result([m3.self EXCEPT !.type_idx_ = m3.other.type_idx_], o3,
                                 FALSE,
                                 lg \o IndexWrite(a, m3.other.type_idx_) \o dt)

(* ----------------------------- accessors ------------------------------ *)

\* The null pointer, and a pointer to the object in a buffer.
nullptr == [null |-> TRUE, obj |-> NoObj]

PointerTo(obj) == [null |-> FALSE, obj |-> obj]

\* A null const Variant<Args...>*.
NullVariant == [null |-> TRUE, obj |-> NoVariant]

\* get_if as it would be without the discriminant check.
get_if_Unchecked(Idx, variant) ==
    IF variant.null THEN nullptr ELSE PointerTo(variant.obj.storage_)

\* template<size_t Idx, typename... Args> get_if(const Variant<Args...>* variant)
\* variant is NullVariant (variant == nullptr) or PointerTo(a Variant).
get_if(Idx, variant) ==
    IF variant.null \/ Idx # variant.obj.type_idx_
    THEN nullptr
    ELSE PointerTo(variant.obj.storage_)

\* template<typename T, typename... Args> get_if(const Variant<Args...>* variant)
get_ifT(T, variant) == get_if(IndexOf(T), variant)

\* template<size_t Idx, typename... Args> get(const Variant<Args...>& variant)
\* threw: std::runtime_error("Variant holds different alternative")
get(Idx, variant) ==
    LET content == get_if(Idx, PointerTo(variant))
    IN  IF ~content.null
        THEN [threw |-> FALSE, obj |-> content.obj]
        ELSE [threw |-> TRUE, obj |-> NoObj]

\* template<typename T, typename... Args> get(const Variant<Args...>& variant)
getT(T, variant) == get(IndexOf(T), variant)

\* template<typename T, typename... Types> bool holds_alternative(const Variant<Types...>& v)
holds_alternative(T, variant) == index(variant) = IndexOf(T)

(* ------------------------------ state --------------------------------- *)

\* The potentially-throwing call of an operation that throws: 0 for none; the
\* rotation of swap makes three such calls.
FailPoints == {0, 1, 2, 3}

\* The record of an operation: a is *this (or the variable constructed), b the
\* other operand (a itself for a unary operation), arg the alternative index
\* named or resolved, val the value given, fail the call chosen to throw,
\* threw whether an exception propagated, raised how many calls of an
\* alternative's constructor or assignment operator threw, res what an
\* accessor returned.
Op(op, a, b, arg, val, fail, threw, res) ==
    [op |-> op, a |-> a, b |-> b, from |-> "-", arg |-> arg, val |-> val, fail |-> fail,
     threw |-> threw, raised |-> 0, res |-> res]

\* The record of an operation given a value of type from (or, for in_place_type
\* and emplace<T>, naming the alternative type from).
OpFrom(op, a, b, from, arg, val, fail, threw) ==
    [Op(op, a, b, arg, val, fail, threw, nullptr) EXCEPT !.from = from]

NoOp == Op("none", "x", "x", variant_npos, 0, 0, FALSE, nullptr)

Init ==
    /\ v = [n \in Names |-> NoVariant]
    /\ alive = [n \in Names |-> FALSE]
    /\ pre = [n \in Names |-> NoVariant]
    /\ last = NoOp
    /\ log = <<>>
    /\ steps = <<>>

\* A constructor of variable a returned r: a exists unless the constructor threw.
Constructed(op, a, b, from, arg, val, fail, r) ==
    /\ (r.raised # 0) = (fail # 0)
    /\ pre' = v
    /\ v' = IF r.threw THEN [v EXCEPT ![b] = r.other]
            ELSE [[v EXCEPT ![b] = r.other] EXCEPT ![a] = r.self]
    /\ alive' = [alive EXCEPT ![a] = ~r.threw]
    /\ log' = Calls(r.log)
    /\ steps' = r.log
    /\ last' = [OpFrom(op, a, b, from, arg, val, fail, r.threw) EXCEPT !.raised = r.raised]

\* A member function of a, with other operand b (b = a: none), returned r.
Called(op, a, b, from, arg, val, fail, r) ==
    /\ (r.raised # 0) = (fail # 0)
    /\ pre' = v
    /\ v' = IF a = b THEN [v EXCEPT ![a] = r.self]
            ELSE [[v EXCEPT ![b] = r.other] EXCEPT ![a] = r.self]
    /\ UNCHANGED alive
    /\ log' = Calls(r.log)
    /\ steps' = r.log
    /\ last' = [OpFrom(op, a, b, from, arg, val, fail, r.threw) EXCEPT !.raised = r.raised]

\* Variant() : type_idx_{0} { new(storage_.data()) T(); }
DefaultConstruct(a) ==
    /\ ~alive[a]
    /\ \E fail \in {0, 1} :
        Constructed("Variant()", a, a, "-", 0, 0, fail, DefaultCtor(a, fail = 1))

\* Variant<Types...> a{std::in_place_index<Idx>, args...}
InPlaceIndexConstruct(a) ==
    /\ ~alive[a]
    /\ \E Idx \in Indices, val \in Values, fail \in {0, 1} :
        Constructed("Variant(in_place_index)", a, a, "-", Idx, val, fail,
                    InPlaceIndexCtor(Idx, a, val, fail = 1))

\* Variant<Types...> a{std::in_place_type<T>, args...}
InPlaceTypeConstruct(a) ==
    /\ ~alive[a]
    /\ \E i \in Indices, val \in Values, fail \in {0, 1} :
        Constructed("Variant(in_place_type)", a, a, Types[i + 1], i, val, fail,
                    InPlaceTypeCtor(Types[i + 1], a, val, fail = 1))

\* Variant<Types...> a{value}, value of type From
ConvertConstruct(a) ==
    /\ ~alive[a]
    /\ \E From \in FromTypes, val \in Values, fail \in {0, 1} :
        /\ IsConvertibleV(From)
        /\ Constructed("Variant(T&&)", a, a, From, IndexOf(ChooseConvertibleT(From)), val, fail,
                       ConvertCtor(From, a, val, fail = 1))

\* Variant<Types...> a{b}
CopyConstruct(a, b) ==
    /\ ~alive[a] /\ alive[b]
    /\ \E fail \in {0, 1} :
        Constructed("Variant(const Variant&)", a, b, "-", v[b].type_idx_, 0, fail,
                    CopyCtor(v[b], a, fail = 1))

\* Variant<Types...> a{std::move(b)}
MoveConstruct(a, b) ==
    /\ ~alive[a] /\ alive[b]
    /\ \E fail \in {0, 1} :
        Constructed("Variant(Variant&&)", a, b, "-", v[b].type_idx_, 0, fail,
                    MoveCtor(v[b], a, fail = 1))

\* ~Variant() { destroy<0>(); }: the end of a's lifetime.
Destruct(a) ==
    /\ alive[a]
    /\ pre' = v
    /\ v' = [v EXCEPT ![a] = NoVariant]
    /\ alive' = [alive EXCEPT ![a] = FALSE]
    /\ log' = destroy(0, v[a], a).log
    /\ steps' = destroy(0, v[a], a).log
    /\ last' = Op("~Variant()", a, a, v[a].type_idx_, 0, 0, FALSE, nullptr)

\* a.emplace<Idx>(args...)
Emplace(a) ==
    /\ alive[a]
    /\ \E Idx \in Indices, val \in Values, fail \in {0, 1} :
        Called("emplace", a, a, "-", Idx, val, fail, emplace(Idx, v[a], a, val, fail = 1))

\* a.emplace<T>(args...)
EmplaceType(a) ==
    /\ alive[a]
    /\ \E i \in Indices, val \in Values, fail \in {0, 1} :
        Called("emplace<T>", a, a, Types[i + 1], i, val, fail,
               emplaceT(Types[i + 1], v[a], a, val, fail = 1))

\* a = std::move(b)
MoveAssignment(a, b) ==
    /\ alive[a] /\ alive[b] /\ a # b
    /\ \E fail \in {0, 1} :
        Called("operator=(Variant&&)", a, b, "-", v[b].type_idx_, 0, fail,
               MoveAssign(v[a], a, v[b], fail = 1))

\* a = b
CopyAssignment(a, b) ==
    /\ alive[a] /\ alive[b] /\ a # b
    /\ \E fail \in {0, 1} :
        Called("operator=(const Variant&)", a, b, "-", v[b].type_idx_, 0, fail,
               CopyAssign(v[a], a, v[b], fail))

\* a = value, value of type From
ConvertAssignment(a) ==
    /\ alive[a]
    /\ \E From \in FromTypes, val \in Values, fail \in {0, 1} :
        /\ IsConvertibleV(From)
        /\ Called("operator=(T&&)", a, a, From, IndexOf(ChooseConvertibleT(From)), val, fail,
                  ConvertAssign(v[a], a, From, val, fail))

\* a.swap(b)
Swap(a, b) ==
    /\ alive[a] /\ alive[b] /\ a # b
    /\ \E fail \in FailPoints :
        Called("swap", a, b, "-", v[b].type_idx_, 0, fail, swap(v[a], v[b], a, b, fail))

\* get<Idx>(a), read
Get(a) ==
    /\ alive[a]
    /\ \E Idx \in Indices :
        LET g == get(Idx, v[a])
        IN  /\ pre' = v
            /\ UNCHANGED <<v, alive>>
            /\ log' = <<>>
            /\ steps' = <<>>
            /\ last' = Op("get", a, a, Idx, 0, 0, g.threw, PointerTo(g.obj))

\* get_if<Idx>(p), p null or the address of a
GetIf(a) ==
    /\ alive[a]
    /\ \E Idx \in Indices, isNull \in BOOLEAN :
        LET p == IF isNull THEN NullVariant ELSE PointerTo(v[a])
        IN  /\ pre' = v
            /\ UNCHANGED <<v, alive>>
            /\ log' = <<>>
            /\ steps' = <<>>
            /\ last' = Op(IF isNull THEN "get_if(nullptr)" ELSE "get_if", a, a, Idx, 0, 0,
                          FALSE, get_if(Idx, p))

\* get<Idx>(a) = val: a write through the reference get returns
GetWrite(a) ==
    /\ alive[a]
    /\ \E Idx \in Indices, val \in Values :
        LET g == get(Idx, v[a])
        IN  /\ pre' = v
            /\ v' = IF g.threw THEN v ELSE [v EXCEPT ![a].storage_.val = val]
            /\ UNCHANGED alive
            /\ log' = <<>>
            /\ steps' = <<>>
            /\ last' = Op("get=", a, a, Idx, val, 0, g.threw, PointerTo(g.obj))

Next ==
    \/ \E a \in Names : DefaultConstruct(a)
    \/ \E a \in Names : ConvertConstruct(a)
    \/ \E a \in Names : InPlaceIndexConstruct(a)
    \/ \E a \in Names : InPlaceTypeConstruct(a)
    \/ \E a, b \in Names : CopyConstruct(a, b)
    \/ \E a, b \in Names : MoveConstruct(a, b)
    \/ \E a \in Names : Destruct(a)
    \/ \E a \in Names : Emplace(a)
    \/ \E a \in Names : EmplaceType(a)
    \/ \E a, b \in Names : MoveAssignment(a, b)
    \/ \E a, b \in Names : CopyAssignment(a, b)
    \/ \E a \in Names : ConvertAssignment(a)
    \/ \E a, b \in Names : Swap(a, b)
    \/ \E a \in Names : Get(a)
    \/ \E a \in Names : GetIf(a)
    \/ \E a \in Names : GetWrite(a)

Spec == Init /\ [][Next]_vars

(* ======================================================================= *)
(* Properties                                                              *)
(* ======================================================================= *)

\* The operations that begin the lifetime of last.a.
ConstructorOps ==
    {"Variant()", "Variant(T&&)", "Variant(in_place_index)", "Variant(in_place_type)",
     "Variant(const Variant&)", "Variant(Variant&&)"}

\* The variables the last operation worked on.
Operands == IF last.op = "none" THEN {} ELSE {last.a, last.b}

\* The operands of the last operation that existed before it.
OperandsBefore ==
    IF last.op \in ConstructorOps THEN Operands \ {last.a} ELSE Operands

\* The last operation was a.swap(b) on two variants holding different alternatives.
SwapOfDifferent ==
    /\ last.op = "swap"
    /\ pre[last.a].type_idx_ \in Indices
    /\ pre[last.b].type_idx_ \in Indices
    /\ pre[last.a].type_idx_ # pre[last.b].type_idx_

\* The construct entries of the log for buffer at.
ConstructsAt(at) == {i \in DOMAIN log : log[i].e = "construct" /\ log[i].at = at}

\* C1 (I1): after every operation each existing variant's buffer holds exactly
\* one constructed, undestroyed object of alternative k when the discriminant
\* is k, and no constructed, undestroyed object when the discriminant is the
\* sentinel.
C1_BufferMatchesDiscriminant ==
    \A n \in Names : alive[n] =>
        /\ v[n].type_idx_ \in Indices =>
              v[n].storage_ # NoObj /\ v[n].storage_.alt = v[n].type_idx_
        /\ v[n].type_idx_ = variant_npos => v[n].storage_ = NoObj

\* C2: emplace<i> or emplace<T> on a variant holding a valid alternative, whose
\* alternative constructor throws, propagates the exception and leaves the
\* variant valueless: valueless_by_exception() and index() == variant_npos.
C2_EmplaceThrowLeavesValueless ==
    (/\ last.op \in {"emplace", "emplace<T>"}
     /\ last.fail = 1
     /\ pre[last.a].type_idx_ \in Indices)
    => /\ last.threw
       /\ valueless_by_exception(v[last.a])
       /\ index(v[last.a]) = variant_npos

\* C2 witness: a throwing emplace<1> on a variant that held a different alternative.
C2_Witness ==
    /\ last.op = "emplace"
    /\ last.threw
    /\ pre[last.a].type_idx_ \in Indices
    /\ pre[last.a].type_idx_ # last.arg
    /\ valueless_by_exception(v[last.a])

\* C3: converting assignment to a valueless variant, where constructing the
\* resolved alternative To does not throw, restores a live state: not
\* valueless, index() == indexOf(To), holding a To constructed from the value.
C3_ConvertAssignRestoresValueless ==
    (/\ last.op = "operator=(T&&)"
     /\ ~last.threw
     /\ valueless_by_exception(pre[last.a]))
    => /\ ~valueless_by_exception(v[last.a])
       /\ index(v[last.a]) = last.arg
       /\ v[last.a].storage_ = Obj(last.arg, last.val)

\* C4: in copy assignment between differing discriminants where the source
\* alternative's copy constructor may throw and its move constructor cannot
\* (temporary-then-move), a throwing copy leaves the target with its original
\* alternative and value, not valueless.
C4_CopyAssignTmpThrowKeepsTarget ==
    (/\ last.op = "operator=(const Variant&)"
     /\ last.threw
     /\ pre[last.a].type_idx_ \in Indices
     /\ pre[last.b].type_idx_ \in Indices
     /\ pre[last.a].type_idx_ # pre[last.b].type_idx_
     /\ ~is_nothrow_copy_constructible(TypeAtIdx(pre[last.b].type_idx_))
     /\ is_nothrow_move_constructible(TypeAtIdx(pre[last.b].type_idx_)))
    => /\ v[last.a] = pre[last.a]
       /\ ~valueless_by_exception(v[last.a])

\* C5: x.swap(y) on different alternatives with no throwing move exchanges
\* discriminants and values exactly, each value transferred by move construction.
C5_SwapExchanges ==
    (SwapOfDifferent /\ ~last.threw)
    => /\ v[last.a].type_idx_ = pre[last.b].type_idx_
       /\ v[last.b].type_idx_ = pre[last.a].type_idx_
       /\ v[last.a].storage_ = Obj(pre[last.b].type_idx_, pre[last.b].storage_.val)
       /\ v[last.b].storage_ = Obj(pre[last.a].type_idx_, pre[last.a].storage_.val)
       /\ ConstructsAt(last.a) # {} /\ ConstructsAt(last.b) # {}
       /\ \A i \in DOMAIN log : log[i].e = "construct" => log[i].how = "move"

\* C5 witness: a completed swap of two different alternatives with different values.
C5_Witness ==
    /\ SwapOfDifferent /\ ~last.threw
    /\ pre[last.a].storage_.val # pre[last.b].storage_.val
    /\ v[last.a].storage_.val = pre[last.b].storage_.val

\* C6: in a swap of different alternatives where the move of one operand's
\* value into the other operand's slot (the move of *this into other) throws,
\* the operand moved into ends valueless and the operand moved out of keeps
\* its discriminant and its value, un-moved.
C6_SwapSecondMoveThrows ==
    (SwapOfDifferent /\ last.threw /\ last.fail = 2)
    => /\ v[last.b].type_idx_ = variant_npos
       /\ v[last.a].type_idx_ = pre[last.a].type_idx_
       /\ v[last.a].storage_ = pre[last.a].storage_

\* C6 witness: the second move of a rotation threw.
C6_Witness ==
    /\ SwapOfDifferent /\ last.threw /\ last.fail = 2
    /\ ~pre[last.a].storage_.moved
    /\ ~v[last.a].storage_.moved

\* C7 as stated: x holds A whose move constructor throws, y holds B; x.swap(y)
\* throws, x is valueless, y.index() is unchanged and y holds its original B.
C7_AsStated ==
    (/\ SwapOfDifferent
     /\ ~is_nothrow_move_constructible(TypeAtIdx(pre[last.a].type_idx_))
     /\ last.fail = 2)
    => /\ last.threw
       /\ valueless_by_exception(v[last.a])
       /\ index(v[last.b]) = index(pre[last.b])
       /\ v[last.b].storage_ = pre[last.b].storage_

\* C7, amended: x holds A whose move constructor throws, y holds B; x.swap(y)
\* throws, y is valueless, x.index() is unchanged and get<A>(x) is x's
\* original, un-moved A value.
C7_SwapThrowingThisLeavesOtherValueless ==
    (/\ SwapOfDifferent
     /\ ~is_nothrow_move_constructible(TypeAtIdx(pre[last.a].type_idx_))
     /\ last.fail = 2)
    => /\ last.threw
       /\ valueless_by_exception(v[last.b])
       /\ index(v[last.a]) = index(pre[last.a])
       /\ ~get(index(pre[last.a]), v[last.a]).threw
       /\ get(index(pre[last.a]), v[last.a]).obj = pre[last.a].storage_

\* C7 witness: x held CopyConstructThrows, y held char, and moving x's value threw.
C7_Witness ==
    /\ SwapOfDifferent /\ last.threw /\ last.fail = 2
    /\ TypeAtIdx(pre[last.a].type_idx_) = "CopyConstructThrows"
    /\ TypeAtIdx(pre[last.b].type_idx_) = "char"
    /\ valueless_by_exception(v[last.b])

\* C8: in this->swap(other) with differing discriminants, if the first move of
\* the rotation (other into the temporary) throws, the exception propagates,
\* both operands keep their discriminants and *this's value is not moved-from.
C8_SwapFirstMoveThrows ==
    (SwapOfDifferent /\ last.fail = 1)
    => /\ last.threw
       /\ v[last.a].type_idx_ = pre[last.a].type_idx_
       /\ v[last.b].type_idx_ = pre[last.b].type_idx_
       /\ v[last.a].storage_ = pre[last.a].storage_

\* C8 witness: the first move of a rotation threw and neither operand is valueless.
C8_Witness ==
    /\ SwapOfDifferent /\ last.threw /\ last.fail = 1
    /\ ~valueless_by_exception(v[last.a]) /\ ~valueless_by_exception(v[last.b])
    /\ ~v[last.a].storage_.moved

\* C9 as stated: no operation that completes without throwing leaves a variant
\* it operated on valueless.
C9_AsStated ==
    ~last.threw =>
        \A n \in Operands : alive[n] => ~valueless_by_exception(v[n])

\* C9, amended: a variant an operation worked on is valueless afterwards only
\* if the operation threw or one of its operands was already valueless before
\* it; an operation that completes without throwing on operands none of which
\* was valueless leaves none of them valueless.
C9_ValuelessOnlyByFailureOrFromValueless ==
    \A n \in Operands :
        (alive[n] /\ valueless_by_exception(v[n]))
        => \/ last.threw
           \/ \E m \in OperandsBefore : valueless_by_exception(pre[m])

\* C9 witness: an emplace that replaced a live alternative by another without
\* throwing; the variant is not valueless.
C9_Witness ==
    /\ last.op = "emplace" /\ ~last.threw
    /\ pre[last.a].type_idx_ \in Indices
    /\ pre[last.a].type_idx_ # last.arg
    /\ v[last.a].type_idx_ = last.arg

\* C10: the accessors agree with the discriminant.  For every alternative
\* index i with T = typeAt(i): get_if<i>/get_if<T> is non-null exactly when the
\* pointer is non-null and the discriminant is i; get<i>/get<T> returns the live
\* value when the discriminant is i and fails otherwise, also when valueless;
\* holds_alternative<T> is index() == indexOf(T).
C10_AccessorsAgreeWithDiscriminant ==
    /\ \A n \in Names : alive[n] => \A i \in Indices :
        LET T == TypeAtIdx(i)
            p == PointerTo(v[n])
        IN  /\ ~get_if(i, p).null <=> v[n].type_idx_ = i
            /\ ~get_ifT(T, p).null <=> v[n].type_idx_ = i
            /\ get_if(i, NullVariant).null /\ get_ifT(T, NullVariant).null
            /\ get(i, v[n]).threw <=> v[n].type_idx_ # i
            /\ getT(T, v[n]).threw <=> v[n].type_idx_ # i
            /\ v[n].type_idx_ = i =>
                  /\ get(i, v[n]).obj = v[n].storage_
                  /\ getT(T, v[n]).obj.alt = i
                  /\ get_if(i, p).obj = v[n].storage_
            /\ valueless_by_exception(v[n]) => get(i, v[n]).threw
            /\ holds_alternative(T, v[n]) <=> index(v[n]) = i
    /\ last.op \in {"get", "get="} =>
          (last.threw <=> pre[last.a].type_idx_ # last.arg)
    /\ last.op = "get_if" =>
          (~last.res.null <=> pre[last.a].type_idx_ = last.arg)
    /\ last.op = "get_if(nullptr)" => last.res.null

\* C10 witness: get<i> on a valueless variant failed.
C10_Witness ==
    /\ last.op = "get" /\ last.threw
    /\ valueless_by_exception(v[last.a])

\* The alternative types.
AlternativeTypes == {Types[i + 1] : i \in Indices}

\* The entries of the log of kind e.
Events(e) == {i \in DOMAIN log : log[i].e = e}

\* C11: every value-establishing constructor yields the discriminant of the
\* constructed alternative and get returns the constructed value: Variant(v)
\* for v of alternative type T gives index() == indexOf(T) and get<T>(x) == v;
\* Variant() gives index() == 0 with a default-constructed first alternative;
\* in_place_index<i> gives index() == i; in_place_type<T> gives indexOf(T).
C11_ConstructorsEstablishValue ==
    (last.op \in ConstructorOps /\ ~last.threw) =>
        /\ alive[last.a]
        /\ (last.op = "Variant(T&&)" /\ last.from \in AlternativeTypes) =>
              /\ index(v[last.a]) = IndexOf(last.from)
              /\ ~getT(last.from, v[last.a]).threw
              /\ getT(last.from, v[last.a]).obj = Obj(IndexOf(last.from), last.val)
        /\ last.op = "Variant(T&&)" =>
              /\ TypeAtIdx(index(v[last.a])) = ChooseConvertibleT(last.from)
              /\ get(index(v[last.a]), v[last.a]).obj.val = last.val
        /\ last.op = "Variant()" =>
              /\ index(v[last.a]) = 0
              /\ get(0, v[last.a]).obj = Obj(0, 0)
              /\ log = <<Ev("construct", last.a, 0, "default", FALSE)>>
        /\ last.op = "Variant(in_place_index)" =>
              /\ index(v[last.a]) = last.arg
              /\ get(last.arg, v[last.a]).obj = Obj(last.arg, last.val)
        /\ last.op = "Variant(in_place_type)" =>
              /\ index(v[last.a]) = IndexOf(last.from)
              /\ getT(last.from, v[last.a]).obj = Obj(IndexOf(last.from), last.val)

\* C11 witness: Variant(v) for v a CopyConstructThrows of value 1.
C11_Witness ==
    /\ last.op = "Variant(T&&)" /\ ~last.threw
    /\ last.from = "CopyConstructThrows" /\ last.val = 1
    /\ index(v[last.a]) = 2
    /\ v[last.a].storage_.val = 1

\* C12: copy-constructing y from x holding alternative k performs exactly one
\* copy construction of alternative k, gives y the same discriminant and an
\* equal value and leaves x unchanged; destroying a variant holding
\* alternative k (such a copy included) destroys exactly one object, of
\* alternative k, in its buffer.
C12_CopyConstructCopiesOnce ==
    /\ (/\ last.op = "Variant(const Variant&)" /\ ~last.threw
        /\ pre[last.b].type_idx_ \in Indices) =>
          LET k == pre[last.b].type_idx_
          IN  /\ log = <<Ev("construct", last.a, k, "copy", FALSE)>>
              /\ alive[last.a]
              /\ index(v[last.a]) = k
              /\ v[last.a].storage_.alt = k
              /\ v[last.a].storage_.val = pre[last.b].storage_.val
              /\ v[last.b] = pre[last.b]
    /\ (last.op = "~Variant()" /\ pre[last.a].type_idx_ \in Indices) =>
          /\ log = <<Ev("destroy", last.a, pre[last.a].type_idx_, "-", FALSE)>>
          /\ ~alive[last.a]
          /\ \A n \in Names \ {last.a} : v[n] = pre[n]

\* C12 witness: a copy of a variant holding an IntConvertible of value 1.
C12_Witness ==
    /\ last.op = "Variant(const Variant&)" /\ ~last.threw
    /\ pre[last.b] = Variant(1, Obj(1, 1))
    /\ v[last.a] = Variant(1, Obj(1, 1))
    /\ Len(log) = 1

\* C13: copy-constructing or move-constructing from a valueless source yields
\* a valueless variant, calls no constructor of any alternative and does not
\* fail; the source stays valueless.
C13_ConstructFromValueless ==
    (/\ last.op \in {"Variant(const Variant&)", "Variant(Variant&&)"}
     /\ valueless_by_exception(pre[last.b])) =>
        /\ ~last.threw
        /\ alive[last.a]
        /\ valueless_by_exception(v[last.a])
        /\ index(v[last.a]) = variant_npos
        /\ log = <<>>
        /\ valueless_by_exception(v[last.b])
        /\ v[last.b] = pre[last.b]

\* C13 witness: a move construction from a valueless variant.
C13_Witness ==
    /\ last.op = "Variant(Variant&&)"
    /\ valueless_by_exception(pre[last.b])
    /\ alive[last.a] /\ alive[last.b]
    /\ valueless_by_exception(v[last.a])

\* The last operation was the copy assignment a = b.
CopyAssigned == last.op = "operator=(const Variant&)"

\* The last operation was the move assignment a = std::move(b).
MoveAssigned == last.op = "operator=(Variant&&)"

\* Before the last operation its two operands held different alternatives.
HeldDifferent ==
    /\ pre[last.a].type_idx_ \in Indices
    /\ pre[last.b].type_idx_ \in Indices
    /\ pre[last.a].type_idx_ # pre[last.b].type_idx_

\* Before the last operation its two operands held the same alternative.
HeldSame ==
    /\ pre[last.a].type_idx_ \in Indices
    /\ pre[last.a].type_idx_ = pre[last.b].type_idx_

\* The destroy entries of the log for buffer at.
DestroysAt(at) == {i \in DOMAIN log : log[i].e = "destroy" /\ log[i].at = at}

\* C14: copy assignment x = y where x and y hold different alternatives and
\* no constructor throws destroys x's previous value exactly once and leaves x
\* holding y's alternative with a copy of y's value.
C14_CopyAssignDifferentAlternatives ==
    (CopyAssigned /\ HeldDifferent /\ ~last.threw) =>
        /\ Cardinality(DestroysAt(last.a)) = 1
        /\ \A i \in DestroysAt(last.a) : log[i].alt = pre[last.a].type_idx_
        /\ index(v[last.a]) = index(v[last.b])
        /\ index(v[last.a]) = pre[last.b].type_idx_
        /\ v[last.a].storage_.alt = pre[last.b].type_idx_
        /\ v[last.a].storage_.val = pre[last.b].storage_.val
        /\ v[last.a].storage_.val = v[last.b].storage_.val

\* C14 witness: a char of value 0 replaced by a copy of an IntConvertible of
\* value 1.
C14_Witness ==
    /\ CopyAssigned /\ ~last.threw
    /\ pre[last.a] = Variant(0, Obj(0, 0))
    /\ pre[last.b] = Variant(1, Obj(1, 1))
    /\ v[last.a] = Variant(1, Obj(1, 1))

\* The source alternative of the last assignment is copy-constructed directly
\* into the target: its copy constructor cannot throw or its move constructor
\* can.
DirectCopy ==
    LET T == TypeAtIdx(pre[last.b].type_idx_)
    IN  is_nothrow_copy_constructible(T) \/ ~is_nothrow_move_constructible(T)

\* C15: in copy assignment with differing discriminants where the source
\* alternative's copy constructor and move constructor may both throw, a
\* throwing copy constructor propagates and leaves the target valueless while
\* the source is not valueless and keeps its discriminant.
C15_DirectCopyThrowLeavesValueless ==
    (/\ CopyAssigned /\ last.threw
     /\ pre[last.b].type_idx_ \in Indices
     /\ pre[last.a].type_idx_ # pre[last.b].type_idx_
     /\ ~is_nothrow_copy_constructible(TypeAtIdx(pre[last.b].type_idx_))
     /\ ~is_nothrow_move_constructible(TypeAtIdx(pre[last.b].type_idx_))) =>
        /\ valueless_by_exception(v[last.a])
        /\ ~valueless_by_exception(v[last.b])
        /\ index(v[last.b]) = pre[last.b].type_idx_
        /\ v[last.b] = pre[last.b]

\* C15 witness: x holding a char, y a CopyConstructThrows whose copy throws.
C15_Witness ==
    /\ CopyAssigned /\ last.threw
    /\ pre[last.a].type_idx_ = 0
    /\ pre[last.b].type_idx_ = 2
    /\ valueless_by_exception(v[last.a])
    /\ index(v[last.b]) = 2

\* C16: copy or move assignment from a valueless source into a target holding
\* a live alternative destroys the target's value exactly once and leaves the
\* target valueless without throwing; if the target was already valueless the
\* assignment is a no-op.
C16_AssignFromValueless ==
    ((CopyAssigned \/ MoveAssigned) /\ valueless_by_exception(pre[last.b])) =>
        /\ ~last.threw
        /\ valueless_by_exception(v[last.a])
        /\ index(v[last.a]) = variant_npos
        /\ v[last.b] = pre[last.b]
        /\ pre[last.a].type_idx_ \in Indices =>
              log = <<Ev("destroy", last.a, pre[last.a].type_idx_, "-", FALSE)>>
        /\ valueless_by_exception(pre[last.a]) =>
              (log = <<>> /\ v = pre)

\* C16 witness: a variant holding a CopyConstructThrows copy-assigned from a
\* valueless one.
C16_Witness ==
    /\ CopyAssigned
    /\ valueless_by_exception(pre[last.b])
    /\ pre[last.a].type_idx_ = 2
    /\ valueless_by_exception(v[last.a])
    /\ Len(log) = 1

\* C17: in a copy assignment with differing discriminants the object placed
\* in the target is copy-constructed directly from the source, with no move
\* construction, if the source alternative's copy constructor cannot throw or
\* its move constructor can; otherwise a temporary copy is made first and the
\* target's object is move-constructed from that temporary.
C17_CopyAssignDecisionTable ==
    (/\ CopyAssigned /\ ~last.threw
     /\ pre[last.b].type_idx_ \in Indices
     /\ pre[last.a].type_idx_ # pre[last.b].type_idx_) =>
        LET k == pre[last.b].type_idx_
            constructs == SelectSeq(log, LAMBDA ev : ev.e = "construct")
            built == [i \in DOMAIN constructs |->
                        <<constructs[i].at, constructs[i].alt, constructs[i].how>>]
        IN  /\ IF DirectCopy
               THEN built = << <<last.a, k, "copy">> >>
               ELSE built = << <<"tmp", k, "copy">>, <<last.a, k, "move">> >>
            /\ v[last.a].storage_ = Obj(k, pre[last.b].storage_.val)
            /\ v[last.b] = pre[last.b]

\* C17 witness: an IntConvertible (copy may throw, move cannot) copied into a
\* variant holding a char through a temporary.
C17_Witness ==
    /\ CopyAssigned /\ ~last.threw
    /\ pre[last.a].type_idx_ = 0
    /\ pre[last.b].type_idx_ = 1
    /\ ~DirectCopy
    /\ \E i \in ConstructsAt(last.a) : log[i].how = "move"
    /\ ConstructsAt("tmp") # {}

\* The last operation constructed or destroyed no object of any alternative.
NoLifetimeCalls == Events("construct") = {} /\ Events("destroy") = {}

\* C18: copy assignment x = y where x and y hold the same alternative invokes
\* that alternative's copy-assignment operator exactly once, on x's object
\* with y's object as argument, destroys and constructs nothing, leaves both
\* discriminants unchanged and does not assign to y's object.  (A call of the
\* operator that throws leaves no entry in the log.)
C18_SameAlternativeCopyAssigns ==
    (CopyAssigned /\ HeldSame) =>
        LET k == pre[last.a].type_idx_
        IN  /\ NoLifetimeCalls
            /\ index(v[last.a]) = k
            /\ index(v[last.b]) = k
            /\ v[last.b] = pre[last.b]
            /\ \A i \in Events("assign") : log[i].at = last.a
            /\ ~last.threw =>
                  /\ log = <<Ev("assign", last.a, k, "copy", FALSE)>>
                  /\ v[last.a].storage_.alt = k
                  /\ v[last.a].storage_.val = pre[last.b].storage_.val
            /\ last.threw => log = <<>>

\* C18 witness: an IntConvertible of value 0 copy-assigned from one of value 1.
C18_Witness ==
    /\ CopyAssigned /\ HeldSame /\ ~last.threw
    /\ pre[last.a] = Variant(1, Obj(1, 0))
    /\ pre[last.b] = Variant(1, Obj(1, 1))
    /\ v[last.a] = Variant(1, Obj(1, 1))
    /\ Len(log) = 1

\* The last operation was an assignment to a variant already holding the
\* alternative assigned: a copy or move assignment between equal
\* discriminants, or a converting assignment whose resolved alternative is
\* the live one.
SameAlternativeAssignment ==
    \/ (CopyAssigned \/ MoveAssigned) /\ HeldSame
    \/ /\ last.op = "operator=(T&&)"
       /\ pre[last.a].type_idx_ \in Indices
       /\ pre[last.a].type_idx_ = IndexOf(ChooseConvertibleT(last.from))

\* C19: when a same-alternative assignment throws from the alternative's
\* assignment operator, the exception propagates and the target is neither
\* destroyed nor made valueless: its discriminant is unchanged.
C19_SameAlternativeAssignThrowKeepsTarget ==
    (SameAlternativeAssignment /\ last.threw) =>
        /\ NoLifetimeCalls
        /\ ~valueless_by_exception(v[last.a])
        /\ index(v[last.a]) = pre[last.a].type_idx_
        /\ v[last.a].storage_.alt = pre[last.a].storage_.alt
        /\ alive[last.a]

\* C19 witness: the copy-assignment operator of CopyConstructThrows throws in
\* x = y with both holding that alternative.
C19_Witness ==
    /\ CopyAssigned /\ HeldSame /\ last.threw
    /\ pre[last.a].type_idx_ = 2
    /\ index(v[last.a]) = 2
    /\ v[last.a].storage_.alt = 2

\* C20: move assignment x = std::move(y) where x and y hold the same
\* alternative invokes that alternative's move-assignment operator exactly
\* once on x's object, never on y's, destroys and constructs nothing and
\* leaves both discriminants unchanged.  (A call of the operator that throws
\* leaves no entry in the log.)
C20_SameAlternativeMoveAssigns ==
    (MoveAssigned /\ HeldSame) =>
        LET k == pre[last.a].type_idx_
        IN  /\ NoLifetimeCalls
            /\ index(v[last.a]) = k
            /\ index(v[last.b]) = k
            /\ v[last.b].storage_.alt = pre[last.b].storage_.alt
            /\ v[last.b].storage_.val = pre[last.b].storage_.val
            /\ \A i \in Events("assign") : log[i].at = last.a
            /\ ~last.threw =>
                  /\ log = <<Ev("assign", last.a, k, "move", FALSE)>>
                  /\ v[last.a].storage_.alt = k
                  /\ v[last.a].storage_.val = pre[last.b].storage_.val
                  /\ v[last.b].storage_.moved
            /\ last.threw => log = <<>>

\* C20 witness: an IntConvertible of value 0 move-assigned from one of value 1.
C20_Witness ==
    /\ MoveAssigned /\ HeldSame /\ ~last.threw
    /\ pre[last.a] = Variant(1, Obj(1, 0))
    /\ pre[last.b] = Variant(1, Obj(1, 1))
    /\ v[last.a] = Variant(1, Obj(1, 1))
    /\ log = <<Ev("assign", last.a, 1, "move", FALSE)>>

\* The construct entries of seq, in order, each as <<buffer, alternative, how>>.
Built(seq) ==
    LET constructs == SelectSeq(seq, LAMBDA ev : ev.e = "construct")
    IN  [i \in DOMAIN constructs |->
            <<constructs[i].at, constructs[i].alt, constructs[i].how>>]

\* C21: move assignment x = std::move(y) where x and y hold different
\* alternatives first destroys x's previous value, exactly once, and only then
\* move-constructs y's alternative into x; on success x.index() equals y's
\* discriminant.
C21_MoveAssignDestroysThenConstructs ==
    (MoveAssigned /\ HeldDifferent) =>
        LET old == pre[last.a].type_idx_
            k   == pre[last.b].type_idx_
        IN  /\ Len(log) >= 1
            /\ log[1] = Ev("destroy", last.a, old, "-", FALSE)
            /\ Cardinality(DestroysAt(last.a)) = 1
            /\ ~last.threw =>
                  /\ log = <<Ev("destroy", last.a, old, "-", FALSE),
                             Ev("construct", last.a, k, "move", FALSE)>>
                  /\ index(v[last.a]) = k
                  /\ index(v[last.a]) = index(v[last.b])
                  /\ v[last.a].storage_ = Obj(k, pre[last.b].storage_.val)
            /\ last.threw => log = <<Ev("destroy", last.a, old, "-", FALSE)>>

\* C21 witness: a char replaced by a moved-in CopyConstructThrows of value 1.
C21_Witness ==
    /\ MoveAssigned /\ ~last.threw
    /\ pre[last.a].type_idx_ = 0
    /\ pre[last.b] = Variant(2, Obj(2, 1))
    /\ v[last.a] = Variant(2, Obj(2, 1))
    /\ Len(log) = 2

\* The last operation was the converting assignment a = value.
ConvertAssigned == last.op = "operator=(T&&)"

\* The alternative a converting operation resolves its argument type to.
ResolvedIndex == IndexOf(ChooseConvertibleT(last.from))

\* C22: a converting assignment whose resolved alternative To is the live
\* alternative assigns in place through To's assignment operator taking the
\* value: no destructor and no constructor of To runs and the discriminant is
\* unchanged.
C22_ConvertAssignInPlace ==
    (ConvertAssigned /\ pre[last.a].type_idx_ = ResolvedIndex) =>
        /\ NoLifetimeCalls
        /\ index(v[last.a]) = ResolvedIndex
        /\ v[last.a].storage_.alt = pre[last.a].storage_.alt
        /\ ~last.threw =>
              /\ log = <<Ev("assign", last.a, ResolvedIndex, "convert", FALSE)>>
              /\ v[last.a].storage_.val = last.val
        /\ last.threw => (log = <<>> /\ v[last.a] = pre[last.a])

\* C22 witness: an IntConvertible of value 0 assigned the int 1.
C22_Witness ==
    /\ ConvertAssigned /\ ~last.threw /\ last.from = "int" /\ last.val = 1
    /\ pre[last.a] = Variant(1, Obj(1, 0))
    /\ v[last.a] = Variant(1, Obj(1, 1))
    /\ Len(log) = 1

\* The last operation was a converting assignment to a variant holding a live
\* alternative other than the resolved one.
ConvertAssignedOther ==
    /\ ConvertAssigned
    /\ pre[last.a].type_idx_ \in Indices
    /\ pre[last.a].type_idx_ # ResolvedIndex

\* C23: a converting assignment whose resolved alternative To differs from the
\* live alternative constructs To directly from the value in the target, with
\* no move construction, if constructing To from the value cannot throw or
\* To's move constructor can throw; otherwise a temporary To is constructed
\* from the value and the target's object is move-constructed from it.  In
\* both cases the discriminant becomes indexOf(To).
C23_ConvertAssignDecisionTable ==
    (ConvertAssignedOther /\ ~last.threw) =>
        LET To == ChooseConvertibleT(last.from)
            k  == ResolvedIndex
        IN  /\ IF is_nothrow_constructible(To, last.from) \/ ~is_nothrow_move_constructible(To)
               THEN Built(log) = << <<last.a, k, "convert">> >>
               ELSE Built(log) = << <<"tmp", k, "convert">>, <<last.a, k, "move">> >>
            /\ index(v[last.a]) = k
            /\ v[last.a].storage_ = Obj(k, last.val)

\* C23 witness: a char replaced by an IntConvertible built from the int 1
\* through a temporary.
C23_Witness ==
    /\ ConvertAssignedOther /\ ~last.threw
    /\ last.from = "int" /\ last.val = 1
    /\ pre[last.a].type_idx_ = 0
    /\ v[last.a] = Variant(1, Obj(1, 1))
    /\ Built(log) = << <<"tmp", 1, "convert">>, <<last.a, 1, "move">> >>

\* C24: if a converting assignment to an alternative different from the live
\* one throws while constructing the new alternative, the exception propagates
\* and the variant is left valueless.
C24_ConvertAssignThrowLeavesValueless ==
    (ConvertAssignedOther /\ last.threw) =>
        /\ valueless_by_exception(v[last.a])
        /\ index(v[last.a]) = variant_npos
        /\ Events("construct") = {}
        /\ alive[last.a]

\* C24 witness: constructing an IntConvertible from an int throws in a
\* variant that held a char.
C24_Witness ==
    /\ ConvertAssignedOther /\ last.threw
    /\ last.from = "int"
    /\ pre[last.a].type_idx_ = 0
    /\ valueless_by_exception(v[last.a])

\* The last operation was a.emplace<Idx>(args...) or a.emplace<T>(args...).
Emplaced == last.op \in {"emplace", "emplace<T>"}

\* C25: a successful emplace<i>(args...) on a variant holding a live
\* alternative destroys the current object exactly once and then constructs
\* alternative i directly from args, with no copy or move construction or
\* assignment of the alternative, and sets the discriminant to i.
C25_EmplaceDestroysThenConstructs ==
    (Emplaced /\ ~last.threw /\ pre[last.a].type_idx_ \in Indices) =>
        /\ log = <<Ev("destroy", last.a, pre[last.a].type_idx_, "-", FALSE),
                   Ev("construct", last.a, last.arg, "convert", FALSE)>>
        /\ index(v[last.a]) = last.arg
        /\ v[last.a].storage_ = Obj(last.arg, last.val)

\* C25 witness: emplace<1>(1) on a variant holding a CopyConstructThrows.
C25_Witness ==
    /\ last.op = "emplace" /\ ~last.threw /\ last.arg = 1 /\ last.val = 1
    /\ pre[last.a].type_idx_ = 2
    /\ v[last.a] = Variant(1, Obj(1, 1))
    /\ Len(log) = 2

\* C26: x.swap(y) on two variants holding the same alternative swaps the two
\* live values through the alternative's swap, constructs and destroys no
\* alternative through the variant, and leaves both discriminants unchanged.
C26_SwapSameAlternative ==
    (last.op = "swap" /\ HeldSame) =>
        LET k == pre[last.a].type_idx_
        IN  /\ log = <<Ev("swap", last.a, k, "-", FALSE)>>
            /\ NoLifetimeCalls
            /\ index(v[last.a]) = k
            /\ index(v[last.b]) = k
            /\ v[last.a].storage_ = pre[last.b].storage_
            /\ v[last.b].storage_ = pre[last.a].storage_

\* C26 witness: two variants holding IntConvertible 0 and 1 exchange values.
C26_Witness ==
    /\ last.op = "swap"
    /\ pre[last.a] = Variant(1, Obj(1, 0))
    /\ pre[last.b] = Variant(1, Obj(1, 1))
    /\ v[last.a] = Variant(1, Obj(1, 1))
    /\ v[last.b] = Variant(1, Obj(1, 0))

\* C27: x.swap(y) when both x and y are valueless is a no-op: no constructor,
\* destructor or swap of any alternative is invoked, nothing is thrown, and
\* both remain valueless.
C27_SwapBothValueless ==
    (/\ last.op = "swap"
     /\ valueless_by_exception(pre[last.a])
     /\ valueless_by_exception(pre[last.b])) =>
        /\ ~last.threw
        /\ log = <<>>
        /\ valueless_by_exception(v[last.a])
        /\ valueless_by_exception(v[last.b])
        /\ v = pre

\* C27 witness: a swap of two existing valueless variants.
C27_Witness ==
    /\ last.op = "swap"
    /\ alive[last.a] /\ alive[last.b] /\ last.a # last.b
    /\ valueless_by_exception(pre[last.a])
    /\ valueless_by_exception(pre[last.b])
    /\ valueless_by_exception(v[last.a])
    /\ valueless_by_exception(v[last.b])

\* C28: in the differing-discriminant rotation of swap, a slot that has been
\* moved out of is destroyed before the move that constructs a new object
\* into that slot: every object the rotation constructs in x or y is
\* constructed in a buffer holding no undestroyed object, after a destruction
\* of that buffer's previous object.
C28_SwapDestroysSlotBeforeReuse ==
    SwapOfDifferent =>
        \A i \in DOMAIN log :
            (log[i].e = "construct" /\ log[i].at \in {last.a, last.b}) =>
                /\ ~log[i].over
                /\ \E j \in 1 .. (i - 1) : log[j].e = "destroy" /\ log[j].at = log[i].at

\* C29: a successful move construction from, or move assignment from, a
\* source holding alternative k leaves the source holding a moved-from object
\* of the same alternative k: the source's discriminant is unchanged and the
\* source is not valueless.
C29_MoveLeavesSourceAlternative ==
    (/\ last.op \in {"Variant(Variant&&)", "operator=(Variant&&)"}
     /\ ~last.threw
     /\ pre[last.b].type_idx_ \in Indices) =>
        LET k == pre[last.b].type_idx_
        IN  /\ index(v[last.b]) = k
            /\ ~valueless_by_exception(v[last.b])
            /\ v[last.b].storage_.alt = pre[last.b].storage_.alt
            /\ v[last.b].storage_.moved
            /\ alive[last.b]
            /\ Events("destroy") \subseteq DestroysAt(last.a)

\* C29 witness: a move construction from a variant holding an IntConvertible.
C29_Witness ==
    /\ last.op = "Variant(Variant&&)" /\ ~last.threw
    /\ pre[last.b] = Variant(1, Obj(1, 1))
    /\ index(v[last.b]) = 1
    /\ v[last.b].storage_.moved
    /\ v[last.a] = Variant(1, Obj(1, 1))

\* C30: when a variant's lifetime ends, the destructor of the live alternative
\* is called exactly once if the discriminant is a valid index, and no
\* alternative destructor is called if the variant is valueless.
C30_DestructorDestroysLiveAlternative ==
    last.op = "~Variant()" =>
        /\ ~alive[last.a]
        /\ IF pre[last.a].type_idx_ \in Indices
           THEN /\ Cardinality(Events("destroy")) = 1
                /\ \A i \in Events("destroy") :
                      log[i].at = last.a /\ log[i].alt = pre[last.a].type_idx_
           ELSE Events("destroy") = {}
        /\ Events("construct") = {} /\ Events("assign") = {}

\* C30 witness: the lifetime of a valueless variant ends.
C30_Witness ==
    /\ last.op = "~Variant()"
    /\ valueless_by_exception(pre[last.a])
    /\ ~alive[last.a]
    /\ log = <<>>

\* The operations that call constructors or assignment operators of the
\* alternatives.
CallingOps ==
    ConstructorOps \cup {"emplace", "emplace<T>", "operator=(Variant&&)",
                         "operator=(const Variant&)", "operator=(T&&)", "swap"}

C32_CopyIsIndependentOwner ==
    /\ last.op \in {"Variant(const Variant&)", "operator=(const Variant&)"} =>
          /\ v[last.b] = pre[last.b]
          /\ alive[last.b]
          /\ \A i \in DOMAIN log : log[i].at # last.b
    /\ (last.op # "none" /\ last.a = last.b) =>
          \A n \in Names \ {last.a} : v[n] = pre[n]

\* C32 witness: a copy assignment whose temporary copy of an IntConvertible
\* throws leaves the source as it was.
C32_Witness ==
    /\ CopyAssigned /\ last.threw
    /\ pre[last.b] = Variant(1, Obj(1, 1))
    /\ v[last.b] = Variant(1, Obj(1, 1))
    /\ pre[last.a].type_idx_ = 0

\* The last operation was a converting construction or converting assignment.
Converted == last.op \in {"Variant(T&&)", "operator=(T&&)"}

\* C33 as stated: a conversion is accepted only for an input with exactly one
\* non-narrowing convertible alternative, and rejected when there is none or
\* more than one.
C33_AsStated ==
    Converted => Cardinality(ChooseConvertibleSet(last.from)) = 1

\* C33: the conversion resolver picks exactly one alternative, never a
\* narrowing one, for an input whose non-narrowing convertible alternatives
\* have a single best match in overload resolution (int selects the
\* int-constructible class over char, char selects char over that class), and
\* the conversion is rejected at compile time, so that no converting
\* operation runs, when no alternative is a non-narrowing match or the
\* non-narrowing matches are ambiguous.
C33_ResolverPicksBestNonNarrowing ==
    /\ \A From \in FromTypes :
          LET S == ChooseConvertibleSet(From)
          IN  /\ S = {} => ~IsConvertibleV(From)
              /\ Cardinality(S) = 1 =>
                    /\ IsConvertibleV(From)
                    /\ \A i \in S : ChooseConvertibleT(From) = TypeAtIdx(i)
              /\ IsConvertibleV(From) =>
                    /\ IndexOf(ChooseConvertibleT(From)) \in S
                    /\ NotNarrow(From, ChooseConvertibleT(From))
              /\ From \in AlternativeTypes => ChooseConvertibleT(From) = From
    /\ ChooseConvertibleT("int") = "IntConvertible"
    /\ ~IsConvertibleV("nullptr_t")
    /\ ~IsConvertibleV("ConvertibleToTwo")
    /\ Converted =>
          /\ IsConvertibleV(last.from)
          /\ last.arg = ResolvedIndex
          /\ last.arg \in ChooseConvertibleSet(last.from)
          /\ (~last.threw /\ (last.op = "Variant(T&&)" \/ pre[last.a].type_idx_ \in Indices)) =>
                index(v[last.a]) = last.arg

\* C33 witness: a char handed to the converting constructor, with char and
\* IntConvertible both non-narrowing matches, selects char.
C33_Witness ==
    /\ last.op = "Variant(T&&)" /\ ~last.threw
    /\ last.from = "char"
    /\ ChooseConvertibleSet(last.from) = {0, 1}
    /\ index(v[last.a]) = 0

\* The operations that change the value of an existing variant.
MutatingOps ==
    {"emplace", "emplace<T>", "operator=(Variant&&)", "operator=(const Variant&)",
     "operator=(T&&)", "swap"}

\* The last of the first i - 1 steps that is of a kind in kinds and works on
\* buffer at; 0 if there is none.
LastStep(at, i, kinds) ==
    LET J == {j \in 1 .. (i - 1) : steps[j].at = at /\ steps[j].e \in kinds}
    IN  IF J = {} THEN 0 ELSE CHOOSE j \in J : \A k \in J : k <= j

\* The discriminant of the variant in buffer at just before step i of the
\* last operation.
DiscriminantAt(at, i) ==
    LET j == LastStep(at, i, {"index", "destroy"})
    IN  IF j = 0 THEN pre[at].type_idx_
        ELSE IF steps[j].e = "destroy" THEN variant_npos ELSE steps[j].alt

\* The alternative of the constructed, undestroyed object in buffer at just
\* before step i of the last operation; variant_npos if there is none.
HeldAt(at, i) ==
    LET j == LastStep(at, i, {"construct", "destroy"})
    IN  IF j = 0 THEN pre[at].storage_.alt
        ELSE IF steps[j].e = "destroy" THEN variant_npos ELSE steps[j].alt

C35_ValuelessRestored ==
    (/\ Emplaced \/ CopyAssigned \/ MoveAssigned
     /\ valueless_by_exception(pre[last.a])
     /\ ~last.threw
     /\ Emplaced \/ pre[last.b].type_idx_ \in Indices) =>
        LET k == IF Emplaced THEN last.arg ELSE pre[last.b].type_idx_
        IN  /\ index(v[last.a]) = k
            /\ ~valueless_by_exception(v[last.a])
            /\ v[last.a].storage_.alt = k
            /\ v[last.a].storage_.val =
                  (IF Emplaced THEN last.val ELSE pre[last.b].storage_.val)
            /\ DestroysAt(last.a) = {}
            /\ Cardinality(ConstructsAt(last.a)) = 1

\* C35 witness: a valueless variant move-assigned a CopyConstructThrows.
C35_Witness ==
    /\ MoveAssigned /\ ~last.threw
    /\ valueless_by_exception(pre[last.a])
    /\ pre[last.b].type_idx_ = 2
    /\ index(v[last.a]) = 2
    /\ DestroysAt(last.a) = {}

\* C36: every alternative object constructed in a variant's buffer has its
\* destructor run exactly once: no object is overwritten by a new
\* construction, none is abandoned when its variant's lifetime ends, and no
\* destructor runs on a buffer without an object.
C36_EveryObjectDestroyedOnce ==
    /\ \A i \in Events("construct") : ~log[i].over
    /\ last.op = "~Variant()" =>
          /\ pre[last.a].storage_ # NoObj => Cardinality(DestroysAt(last.a)) = 1
          /\ pre[last.a].storage_ = NoObj => DestroysAt(last.a) = {}
    /\ \A n \in Names : (alive[n] /\ v[n].type_idx_ \in Indices) => v[n].storage_ # NoObj

\* C37: if move assignment x = std::move(y) between variants holding
\* different alternatives throws from the alternative's move constructor, x
\* is left valueless, its previous value destroyed exactly once, and y keeps
\* its discriminant.
C37_MoveAssignThrowLeavesValueless ==
    (MoveAssigned /\ HeldDifferent /\ last.threw) =>
        /\ valueless_by_exception(v[last.a])
        /\ v[last.a].storage_ = NoObj
        /\ log = <<Ev("destroy", last.a, pre[last.a].type_idx_, "-", FALSE)>>
        /\ index(v[last.b]) = pre[last.b].type_idx_
        /\ v[last.b].storage_.alt = pre[last.b].storage_.alt

\* C37 witness: moving a CopyConstructThrows into a variant holding an
\* IntConvertible throws.
C37_Witness ==
    /\ MoveAssigned /\ last.threw
    /\ pre[last.a].type_idx_ = 1
    /\ pre[last.b].type_idx_ = 2
    /\ valueless_by_exception(v[last.a])
    /\ index(v[last.b]) = 2

\* C38: in this->swap(other) with differing discriminants, if the last move
\* of the rotation, the temporary into this's slot, throws after the first
\* two succeeded, this is left valueless, other holds this's original
\* alternative, and other's original value is held by neither operand.
C38_SwapLastMoveThrows ==
    (SwapOfDifferent /\ last.threw /\ last.fail = 3) =>
        /\ valueless_by_exception(v[last.a])
        /\ index(v[last.b]) = pre[last.a].type_idx_
        /\ v[last.b].storage_ = Obj(pre[last.a].type_idx_, pre[last.a].storage_.val)
        /\ \A n \in {last.a, last.b} : index(v[n]) # pre[last.b].type_idx_
        /\ \A n \in {last.a, last.b} : v[n].storage_.alt # pre[last.b].type_idx_

\* C38 witness: x holds an IntConvertible, y a CopyConstructThrows whose move
\* out of the temporary throws in x.swap(y).
C38_Witness ==
    /\ last.op = "swap" /\ last.threw /\ last.fail = 3
    /\ pre[last.a].type_idx_ = 1
    /\ pre[last.b].type_idx_ = 2
    /\ valueless_by_exception(v[last.a])
    /\ index(v[last.b]) = 1

\* C39: x.swap(y) where exactly one operand is valueless and no move throws
\* transfers the live value: afterwards the previously valueless operand
\* holds the other's former alternative and value, and the previously live
\* operand is valueless.
C39_SwapWithOneValueless ==
    (/\ last.op = "swap" /\ ~last.threw
     /\ valueless_by_exception(pre[last.a]) # valueless_by_exception(pre[last.b])) =>
        LET from == IF valueless_by_exception(pre[last.a]) THEN last.b ELSE last.a
            to   == IF valueless_by_exception(pre[last.a]) THEN last.a ELSE last.b
        IN  /\ index(v[to]) = pre[from].type_idx_
            /\ v[to].storage_ = Obj(pre[from].type_idx_, pre[from].storage_.val)
            /\ valueless_by_exception(v[from])
            /\ index(v[from]) = variant_npos

\* C39 witness: x valueless, y holding an IntConvertible of value 1; after
\* x.swap(y) x holds it and y is valueless.
C39_Witness ==
    /\ last.op = "swap" /\ ~last.threw
    /\ valueless_by_exception(pre[last.a])
    /\ pre[last.b].type_idx_ = 1 /\ pre[last.b].storage_.val = 1
    /\ v[last.a] = Variant(1, Obj(1, 1))
    /\ valueless_by_exception(v[last.b])

====
